---- MODULE Spec2Model ----
(***************************************************************************)
(* CollabSphereAI: the meeting-completion route (summary + insights        *)
(* pipeline, src/unnamed/part_002) and the call session's speech-output    *)
(* pipeline (src/src/modules/call/ui/components/call-active.tsx).          *)
(*                                                                         *)
(* Spec      : one meeting-completion request, POST /api/meeting-complete  *)
(* SpecCall  : one mounted CallActive component and the browser's speech   *)
(*             engine, recognizer, timers and pending fetches              *)
(* SpecPlan  : the project-plan route, POST and GET /api/ai-project-plan   *)
(* SpecChunks: the conversation-sync route and its chunk store             *)
(* SpecText  : the heuristic fallback of generateInsights on characters    *)
(* SpecSpeech: the speech-output mode of a call session                    *)
(* SpecPersist: the inserts of a plan, one await at a time                 *)
(* SpecRoles : the two skill -> role lookups of generateInsights           *)
(* SpecSync  : the in-memory conversation cache                            *)
(* SpecAccess: the meetings router: getOne, join, leave                    *)
(* SpecSplit : splitTextIntoChunks                                         *)
(* SpecTasks : the phase of a task in POST and PUT /api/tasks              *)
(***************************************************************************)
EXTENDS Integers, Sequences, FiniteSets, TLC

VARIABLES
    \* ---- meeting-completion route ----
    hfApiKey,        \* process.env.HUGGINGFACE_API_KEY is set
    groq,            \* the Groq client exists (GROQ_API_KEY is set)
    meetings,        \* the meetings table: id -> row
    meetingsBefore,  \* the table as it was when the request arrived (history)
    req,             \* the request body: [meetingId, conversation]
    pc,              \* position of the POST handler
    summaryText,     \* what generateSummary returned
    insights,        \* what generateInsights returned: [ret, ins, hf, path]
    resp,            \* HTTP status answered, 0 while none
    netCalls,        \* hosted calls issued so far (classifier + LLM)
    dbWrites         \* UPDATE statements issued so far

VARIABLES
    \* ---- call session: React state of CallActive ----
    isListening,
    isAgentSpeaking,
    isAIMuted,
    isAIListeningDisabled,
    \* ---- refs ----
    recognitionPausedByTTS,
    ttsStopRequested,
    isShuttingDown,
    greeted,
    lastMicState,    \* "null", "true" or "false"
    lastQuestion,    \* 0 ("") or the last recognized question
    \* ---- the browser and the network ----
    micEnabled,      \* call.microphone.enabled
    recActive,       \* the SpeechRecognition instance is started
    synthQueue,      \* speechSynthesis: utterances spoken (head) and queued
    synthEvents,     \* utterances whose end / error event is not yet delivered
    timers,          \* pending setTimeout callbacks
    fetches,         \* pending /api/groq-chat requests of handleManualTrigger:
                     \* the closure of the handler and the message sent
    nextResp,        \* id of the next response speakResponse starts
    \* ---- history ----
    gestures,        \* clicks and control changes the user has made so far
    stoppedBy        \* response id -> the stop request that interrupted it first

callVars == <<isListening, isAgentSpeaking, isAIMuted, isAIListeningDisabled,
              recognitionPausedByTTS, ttsStopRequested, isShuttingDown, greeted,
              lastMicState, lastQuestion, micEnabled, recActive, synthQueue,
              synthEvents, timers, fetches, nextResp, gestures, stoppedBy>>

VARIABLES
    \* ---- project-plan route ----
    planPc,            \* position of the POST handler
    planReq,           \* meetingId of the request body
    transcriptAnswer,  \* what the transcript fetch answered
    llmAnswer,         \* what /api/groq-chat answered
    planData,          \* projectPlanData and the path that produced it
    planResp,          \* HTTP status the POST answered, 0 while none
    aiProjectPlans,    \* table ai_project_plans, in insertion order
    projectPhases,     \* table project_phases
    tasks,             \* table tasks
    subtasks,          \* table subtasks
    sizesBefore,       \* the four tables' sizes when the request arrived (history)
    planRequests,      \* POST requests so far
    planGot            \* what the last GET answered

planVars == <<planPc, planReq, transcriptAnswer, llmAnswer, planData, planResp,
              aiProjectPlans, projectPhases, tasks, subtasks, sizesBefore,
              planRequests, planGot>>

VARIABLES
    \* ---- conversation store ----
    conversationChunks, \* table conversation_chunks, in insertion order
    serverClock,        \* what new Date() gives on the server
    chunkResp,          \* HTTP status the last POST answered, 0 while none
    chunkRead           \* what the last GET answered

chunkVars == <<conversationChunks, serverClock, chunkResp, chunkRead>>

VARIABLES
    \* ---- heuristic fallback on a transcript's text ----
    hText,   \* the transcript, line by line
    hDone,   \* the fallback has run
    hOut     \* what it computed

textVars == <<hText, hDone, hOut>>

VARIABLES
    \* ---- speech output mode ----
    speechMode,   \* mode: "unset", "neural" or "browser"
    endpoint,     \* what the neural endpoint answers now
    voiced,       \* how each segment so far came out (history)
    quotaNotice   \* the quota notice has been shown

speechVars == <<speechMode, endpoint, voiced, quotaNotice>>

VARIABLES
    \* ---- plan persistence, insert by insert ----
    savers,        \* the POST handlers that save a plan: handler -> its position
    planDocs,      \* rows of ai_project_plans
    phaseTable,    \* rows of project_phases
    taskTable,     \* rows of tasks
    subtaskTable   \* rows of subtasks

persistVars == <<savers, planDocs, phaseTable, taskTable, subtaskTable>>

VARIABLES
    \* ---- the two skill -> role lookups ----
    skillSaid,      \* a skill as a participant names it
    backfillRole,   \* the role the LLM backfill proposes for it
    fallbackRole    \* the role the heuristic path proposes for it

roleVars == <<skillSaid, backfillRole, fallbackRole>>

VARIABLES
    \* ---- the in-memory conversation cache ----
    conversationStore,  \* meeting -> its entry, or NoEntry
    syncNow,            \* Date.now(), in minutes
    syncResp,           \* the answer to the latest request
    syncSeq,            \* flips with every request
    lastPosted          \* history: meeting -> body and time of its latest write

syncVars == <<conversationStore, syncNow, syncResp, syncSeq, lastPosted>>

VARIABLES
    \* ---- meetings and their participants ----
    meeting,               \* the row of the meeting in table meetings, if any
    meetingParticipants,   \* rows of meeting_participants
    joinCalls,             \* the join calls: call -> its position
    meetingResp            \* the answer to the latest procedure call

accessVars == <<meeting, meetingParticipants, joinCalls, meetingResp>>

VARIABLES
    \* ---- the splitting of a response into chunks ----
    splitText,     \* the text speakResponse is given
    splitMaxLen,   \* maxLen
    splitDone,     \* splitTextIntoChunks has returned
    splitChunks    \* the chunks it returned

splitVars == <<splitText, splitMaxLen, splitDone, splitChunks>>

VARIABLES
    \* ---- tasks and the phases they are filed under ----
    taskPhases,     \* rows of project_phases
    taskRows,       \* rows of tasks
    taskCalls       \* the POST and PUT requests of /api/tasks: call -> its position

taskVars == <<taskPhases, taskRows, taskCalls>>

insVars == <<hfApiKey, groq, meetings, meetingsBefore, req, pc, summaryText,
             insights, resp, netCalls, dbWrites>>

-----------------------------------------------------------------------------
\* Bounds of the model.
MaxPos == 1          \* positive keywords in a transcript: 0..MaxPos
MaxNeg == 19         \* negative keywords in a transcript: 0..MaxNeg
MaxMentions == 1     \* "Alice: I'm good at React" lines in a transcript
MaxResponses == 2    \* responses speakResponse starts in one session
MaxChunks == 2       \* chunks of one LLM response: 0..MaxChunks
MaxQuestions == 2    \* distinct questions the recognizer hears
MaxGestures == 5     \* clicks and control changes of the user in one session
MaxFetches == 2      \* /api/groq-chat requests in flight at once
MaxPlanRequests == 2 \* POST /api/ai-project-plan requests in one run
MaxGreetTimers == 1  \* greetings of greetIfNeededOnGesture waiting for their 200 ms
MaxChunkRows == 2    \* rows of conversation_chunks in one run
MaxTs == 2           \* timestamps: 1..MaxTs
MaxLines == 3        \* lines of a transcript given as text: 1..MaxLines
MaxVoiced == 4       \* segments spoken in one session
MaxSavers == 2       \* POST handlers saving a plan at the same time
MaxSyncNow == 6      \* minutes the conversation cache is watched
MaxJoinCalls == 2    \* join calls that run at the same time
MaxTextLen == 6      \* characters of a text given to splitTextIntoChunks
MaxTaskCalls == 2    \* /api/tasks requests that run at the same time
MaxTasks == 2        \* tasks created in one run

-----------------------------------------------------------------------------
\* Numbers are exact rationals <<numerator, denominator>>, denominator > 0.
RLe(a, b) == a[1] * b[2] <= b[1] * a[2]
REq(a, b) == a[1] * b[2] = b[1] * a[2]
RMin(a, b) == IF RLe(a, b) THEN a ELSE b
RMax(a, b) == IF RLe(a, b) THEN b ELSE a
RAdd(a, b) == <<a[1] * b[2] + b[1] * a[2], a[2] * b[2]>>
ROneMinus(a) == <<a[2] - a[1], a[2]>>
Zero == <<0, 1>>
One == <<1, 1>>
Half == <<1, 2>>

\* A JavaScript value as far as the pipeline looks at it: a number, a numeric
\* string (coerced by >=, -, Math.max; has no toFixed), undefined, or an
\* absent array element.
Num(r) == [k |-> "num", v |-> r]
Str(r) == [k |-> "str", v |-> r]
Undef == [k |-> "undef", v |-> Zero]
Absent == [k |-> "absent", v |-> Zero]
\* x ?? d
Coalesce(x, d) == IF x.k \in {"undef", "absent"} THEN Num(d) ELSE x

\* Math.min(0.95, Math.max(0.05, s))
Clamp(s) == RMin(<<19, 20>>, RMax(<<1, 20>>, s))

-----------------------------------------------------------------------------
\* Transcripts, by what the pipeline reads of them: whether the text is
\* null / "" / whitespace only / only "User:" lines / real text, the number of
\* positive and negative keyword occurrences, and the number of lines
\* "Alice: I'm good at React".
BlankKinds == {"null", "empty", "spaces"}
Transcripts ==
    { [kind |-> kd, pos |-> 0, neg |-> 0, mentions |-> 0] :
          kd \in BlankKinds \cup {"userOnly"} }
    \cup
    { [kind |-> "text", pos |-> p, neg |-> n, mentions |-> m] :
          p \in 0..MaxPos, n \in 0..MaxNeg, m \in 0..MaxMentions }

\* A slip: the emptiness test made on the conversation itself, untrimmed.
IsBlankUntrimmed(t) == t.kind \in {"null", "empty"}
\* (conversation || "").trim() is the empty string
IsBlank(t) == t.kind \in BlankKinds

-----------------------------------------------------------------------------
\* The hosted classifier's answer to one fetch.
HFScores == {Num(Zero), Num(<<9, 10>>), Num(<<99, 100>>), Str(<<9, 10>>)}
HFOutcomes ==
    { [http |-> h, pos |-> Absent, neg |-> Absent] : h \in {"throw", "non2xx", "badjson"} }
    \cup
    { [http |-> "ok", pos |-> p, neg |-> n] :
          p \in HFScores \cup {Absent}, n \in {Absent, Num(Zero), Num(<<9, 10>>)} }

NoSent == [some |-> FALSE, score |-> Undef, label |-> "none"]

\* computeHFSentiment: null on a transport error, a non-2xx answer, a body that
\* is not JSON, or a payload with neither label; else the higher-scoring label
\* and the unified score (POSITIVE keeps its score, NEGATIVE is 1 - score).
computeHFSentiment(o) ==
    IF o.http # "ok" THEN NoSent
    ELSE IF o.pos.k = "absent" /\ o.neg.k = "absent" THEN NoSent
    ELSE LET label == IF RLe(Coalesce(o.neg, Zero).v, Coalesce(o.pos, Zero).v)
                      THEN "POSITIVE" ELSE "NEGATIVE"
             score == IF label = "POSITIVE"
                      THEN Coalesce(o.pos, Half)
                      ELSE Num(ROneMinus(Coalesce(o.neg, Half).v))
         IN [some |-> TRUE, score |-> score, label |-> label]

-----------------------------------------------------------------------------
\* The hosted LLM's answer to one chat completion.
GroqSummaryOutcomes == {"throw", "text"}

\* generateSummary: [text, calls]
generateSummary(conversation, groqOn, o) ==
    IF IsBlank(conversation)
    THEN [text |-> "No conversation captured.", calls |-> 0]
    ELSE IF groqOn /\ o # "throw"
    THEN [text |-> "groq summary", calls |-> 1]
    ELSE [text |-> IF conversation.kind = "userOnly"
                   THEN "Summary unavailable." ELSE "Key points: ...",
          calls |-> IF groqOn THEN 1 ELSE 0]

NoHFCall == [http |-> "none", pos |-> Absent, neg |-> Absent]

\* JSON values the LLM may put under expertise_detection and role_suggestions:
\* missing, a (truthy) string, or the expected map / array.  A map is the
\* sequence of its (user, skill, confidence) entries in insertion order.
JNone == [k |-> "undef", v |-> <<>>]
JStr == [k |-> "str", v |-> <<>>]
JMap(entries) == [k |-> "map", v |-> entries]
JList(items) == [k |-> "list", v |-> items]

LLMExpertise == <<[user |-> "Alice", skill |-> "React", confidence |-> <<4, 5>>]>>
LLMRoles == <<[role |-> "Frontend Lead", user |-> "Alice", confidence |-> <<9, 10>>]>>

GroqInsightOutcomes ==
    { [kind |-> kd, sentiment |-> FALSE, score |-> Undef, expertise |-> JNone,
       roles |-> JNone, source |-> FALSE] : kd \in {"throw", "notjson"} }
    \cup
    { [kind |-> "json", sentiment |-> FALSE, score |-> Undef,
       expertise |-> JMap(<<>>), roles |-> JList(<<>>), source |-> FALSE] }
    \cup
    { [kind |-> "json", sentiment |-> TRUE, score |-> sc, expertise |-> er[1],
       roles |-> er[2], source |-> src] :
          sc \in {Undef, Num(Half), Num(<<99, 100>>)},
          er \in { <<JMap(LLMExpertise), JList(LLMRoles)>>,
                   <<JMap(LLMExpertise), JList(<<>>)>>,
                   <<JMap(<<>>), JList(<<>>)>>,
                   <<JStr, JStr>>,
                   <<JNone, JList(<<>>)>> },
          src \in BOOLEAN }

NoGroqCall == [kind |-> "none", sentiment |-> FALSE, score |-> Undef, expertise |-> JNone,
               roles |-> JNone, source |-> FALSE]

\* skill.toLowerCase()
ToLower(s) == IF s = "React" THEN "react" ELSE s

\* The roleMap of the LLM backfill (lines 180-194) and of the heuristic path
\* (lines 251-262); "" is undefined.
RoleMapLLM(key) ==
    CASE key = "react" -> "Frontend Lead"
      [] key = "react native" -> "Mobile Lead"
      [] key \in {"node", "node.js", "backend", "python"} -> "Backend Lead"
      [] key \in {"database", "sql"} -> "Database Design"
      [] key = "devops" -> "DevOps"
      [] key = "testing" -> "QA"
      [] key = "architecture" -> "Tech Lead / Architect"
      [] key = "software development" -> "Engineering Lead"
      [] key = "best practices" -> "Quality Champion"
      [] OTHER -> ""
RoleMapHeuristic(key) ==
    CASE key = "react" -> "Frontend Lead"
      [] key = "react native" -> "Mobile Lead"
      [] key \in {"node", "node.js", "backend", "python"} -> "Backend Lead"
      [] key \in {"database", "sql"} -> "Database Design"
      [] key = "devops" -> "DevOps"
      [] key = "testing" -> "QA"
      [] OTHER -> ""

\* One suggestion per entry whose skill the table knows, confidence
\* min(1, conf + 0.1).
RECURSIVE RolesFrom(_, _, _)
RolesFrom(entries, lower, heuristic) ==
    IF entries = <<>> THEN <<>>
    ELSE LET e == Head(entries)
             key == IF lower THEN ToLower(e.skill) ELSE e.skill
             role == IF heuristic THEN RoleMapHeuristic(key) ELSE RoleMapLLM(key)
             rest == RolesFrom(Tail(entries), lower, heuristic)
         IN IF role # ""
            THEN <<[role |-> role, user |-> e.user,
                    confidence |-> RMin(One, RAdd(e.confidence, <<1, 10>>))]>> \o rest
            ELSE rest

\* const base (lines 99-103)
Base == [source |-> "none", overall_score |-> Num(Half), notes |-> <<>>,
         expertise_detection |-> JMap(<<>>), role_suggestions |-> JList(<<>>)]

\* Lines 146-206, given a completion that arrived: "fail" when JSON.parse or
\* the sanity check throws, else the merged, clamped, backfilled insights.
GroqParsedOK(o) ==
    o.kind = "json" /\ o.sentiment /\ o.expertise.k # "undef" /\ o.roles.k # "undef"
MergeSource(o, hf) ==
    IF hf.some THEN (IF o.source THEN "hybrid" ELSE "hf-sst2") ELSE "groq"
ClampLLM(s) == IF s.k = "num" THEN Num(Clamp(s.v)) ELSE s
GroqMerge(o, hf) ==
    LET s1 == IF hf.some THEN Num(Clamp(hf.score.v)) ELSE o.score
        n1 == IF hf.some THEN <<"HF SST-2 sentiment">> ELSE <<>>
        s2 == ClampLLM(s1)
        n2 == IF s1.k = "num" /\ ~REq(s2.v, s1.v)
              THEN n1 \o <<"Adjusted extreme LLM sentiment">> ELSE n1
        roles == IF o.roles.k = "list" /\ Len(o.roles.v) = 0
                 THEN JList(RolesFrom(IF o.expertise.k = "map" THEN o.expertise.v ELSE <<>>,
                                      TRUE, FALSE))
                 ELSE o.roles
    IN [source |-> MergeSource(o, hf), overall_score |-> s2, notes |-> n2,
        expertise_detection |-> o.expertise, role_suggestions |-> roles]

\* A slip: the ratio of the counts without the smoothing.
UnsmoothedScore(pos, neg) == IF pos + neg = 0 THEN Half ELSE <<pos, pos + neg>>
\* Lines 213-221: Math.max(0, Math.min(1, (pos + 1) / (pos + neg + 2)))
HeuristicScore(pos, neg) == RMax(Zero, RMin(One, <<pos + 1, pos + neg + 2>>))

\* A slip: the confidence added up without the cap.
UncappedConfidence(m) == <<5 + 2 * m, 10>>
\* Lines 229-249: each mention adds 0.2 to the skill's confidence, from 0.5, up to 1.
RECURSIVE MentionConfidence(_)
MentionConfidence(m) ==
    IF m = 0 THEN Half ELSE RMin(One, RAdd(MentionConfidence(m - 1), <<1, 5>>))
HeuristicUsers(t) ==
    IF t.mentions = 0 THEN <<>>
    ELSE <<[user |-> "Alice", skill |-> "react", confidence |-> MentionConfidence(t.mentions)]>>

\* Lines 212-269
HeuristicInsights(t) ==
    [source |-> "heuristic",
     overall_score |-> Num(HeuristicScore(t.pos, t.neg)),
     notes |-> <<"Heuristic sentiment score">>,
     expertise_detection |-> JMap(HeuristicUsers(t)),
     role_suggestions |-> JList(RolesFrom(HeuristicUsers(t), FALSE, TRUE))]

\* generateInsights(conversation): [ret, ins, hf, path, calls].  ret is "throw"
\* when hfSent.score.toFixed (line 116, outside every try) is not a function.
generateInsights(conversation, hfKey, groqOn, hfOut, llmOut) ==
    IF IsBlank(conversation)
    THEN [ret |-> "value", ins |-> Base, hf |-> NoSent, path |-> "blank", calls |-> 0]
    ELSE LET hf == IF hfKey THEN computeHFSentiment(hfOut) ELSE NoSent
             c1 == IF hfKey THEN 1 ELSE 0
         IN IF hf.some /\ hf.score.k # "num"
            THEN [ret |-> "throw", ins |-> Base, hf |-> hf, path |-> "hf", calls |-> c1]
            ELSE IF groqOn /\ GroqParsedOK(llmOut)
            THEN [ret |-> "value", ins |-> GroqMerge(llmOut, hf), hf |-> hf,
                  path |-> "groq", calls |-> c1 + 1]
            ELSE [ret |-> "value", ins |-> HeuristicInsights(conversation), hf |-> hf,
                  path |-> "heuristic", calls |-> c1 + (IF groqOn THEN 1 ELSE 0)]

-----------------------------------------------------------------------------
\* The meetings table and the request.
MeetingIds == {"m1"}
RequestIds == {"", "m1", "m2"}     \* missing, existing, not existing
NoInsights == [ret |-> "none", ins |-> Base, hf |-> NoSent, path |-> "none", calls |-> 0]
NoRequest == [meetingId |-> "", conversation |-> [kind |-> "null", pos |-> 0, neg |-> 0, mentions |-> 0]]

\* db.update(meetings).set(fields).where(eq(meetings.id, id)): rows of other
\* ids, and every row when no row has the id, stay as they are.
DbUpdateStatus(tbl, id, st) ==
    [m \in DOMAIN tbl |-> IF m = id THEN [tbl[m] EXCEPT !.status = st] ELSE tbl[m]]
DbUpdateCompleted(tbl, id, payload) ==
    [m \in DOMAIN tbl |->
        IF m = id
        THEN [tbl[m] EXCEPT !.status = "completed", !.summary = payload, !.endedAt = TRUE]
        ELSE tbl[m]]

InitIns ==
    /\ hfApiKey \in BOOLEAN
    /\ groq \in BOOLEAN
    /\ meetings \in [MeetingIds -> { [status |-> st, summary |-> "null", endedAt |-> FALSE] :
                                        st \in {"active"} }]
    /\ meetingsBefore = meetings
    /\ req = NoRequest
    /\ pc = "idle"
    /\ summaryText = "none"
    /\ insights = NoInsights
    /\ resp = 0
    /\ netCalls = 0
    /\ dbWrites = 0

\* POST, lines 273-283: the body is read (req.json() may throw), a missing
\* meetingId is answered 400, and the meeting is set to "processing".
POSTBegin ==
    /\ pc = "idle"
    /\ \E bodyOk \in BOOLEAN, id \in RequestIds, c \in Transcripts, dbOk \in BOOLEAN :
         /\ meetingsBefore' = meetings
         /\ IF ~bodyOk
            THEN /\ resp' = 500 /\ pc' = "done"
                 /\ UNCHANGED <<req, meetings, dbWrites>>
            ELSE /\ req' = [meetingId |-> id, conversation |-> c]
                 /\ IF id = ""
                    THEN /\ resp' = 400 /\ pc' = "done"
                         /\ UNCHANGED <<meetings, dbWrites>>
                    ELSE /\ dbWrites' = dbWrites + 1
                         /\ IF dbOk
                            THEN /\ meetings' = DbUpdateStatus(meetings, id, "processing")
                                 /\ pc' = "summary"
                                 /\ resp' = resp
                            ELSE /\ resp' = 500 /\ pc' = "done"
                                 /\ UNCHANGED meetings
    /\ UNCHANGED <<hfApiKey, groq, summaryText, insights, netCalls>>

\* Line 291: await generateSummary(convo)
POSTSummary ==
    /\ pc = "summary"
    /\ \E o \in (IF groq /\ ~IsBlank(req.conversation)
                 THEN GroqSummaryOutcomes ELSE {"none"}) :
         LET r == generateSummary(req.conversation, groq, o)
         IN /\ summaryText' = r.text
            /\ netCalls' = netCalls + r.calls
    /\ pc' = "insights"
    /\ UNCHANGED <<hfApiKey, groq, meetings, meetingsBefore, req, insights, resp, dbWrites>>

\* Line 292: await generateInsights(convo, participants); a throw is caught
\* at line 309 and answered 500.
POSTInsights ==
    /\ pc = "insights"
    /\ \E hfOut \in (IF hfApiKey /\ ~IsBlank(req.conversation)
                     THEN HFOutcomes ELSE {NoHFCall}),
          llmOut \in (IF groq /\ ~IsBlank(req.conversation)
                      THEN GroqInsightOutcomes ELSE {NoGroqCall}) :
         LET r == generateInsights(req.conversation, hfApiKey, groq, hfOut, llmOut)
         IN /\ insights' = r
            /\ netCalls' = netCalls + r.calls
            /\ IF r.ret = "throw"
               THEN resp' = 500 /\ pc' = "done"
               ELSE resp' = resp /\ pc' = "save"
    /\ UNCHANGED <<hfApiKey, groq, meetings, meetingsBefore, req, summaryText, dbWrites>>

\* Lines 293-308: the payload is saved, the meeting completed, 200 answered;
\* a failing UPDATE is caught at line 309 and answered 500.
POSTSave ==
    /\ pc = "save"
    /\ dbWrites' = dbWrites + 1
    /\ \E dbOk \in BOOLEAN :
         IF dbOk
         THEN /\ meetings' = DbUpdateCompleted(meetings, req.meetingId,
                                 [summaryText |-> summaryText, insights |-> insights.ins])
              /\ resp' = 200
         ELSE /\ resp' = 500
              /\ UNCHANGED meetings
    /\ pc' = "done"
    /\ UNCHANGED <<hfApiKey, groq, meetingsBefore, req, summaryText, insights, netCalls>>


-----------------------------------------------------------------------------
\* The call session (CallActive, call-active.tsx lines 500-1105).
\*
\* A handler reads React state through the closure of the render it was
\* created in; refs are read live.  A handler run on a click sees the current
\* state; a continuation (after an await, in a timer, in an utterance's
\* onend / onerror) still sees the state of the render that created it.
Closure == [speaking |-> isAgentSpeaking, listening |-> isListening,
            muted |-> isAIMuted, listenDisabled |-> isAIListeningDisabled]
NoClosure == [speaking |-> FALSE, listening |-> FALSE, muted |-> FALSE,
              listenDisabled |-> FALSE]
\* What speakChunkAt and the utterance handlers read of their closure
\* (lines 772, 785, 800, 820, 828): isAIMuted and isAIListeningDisabled.
ChunkClosure(cl) == [muted |-> cl.muted, listenDisabled |-> cl.listenDisabled]

Questions == 1..MaxQuestions

\* new SpeechSynthesisUtterance(chunks[index]) (line 804) of response r, a
\* text of n chunks, with the closure its onend / onerror handlers run in.
Utterance(r, index, n, cl) ==
    [resp |-> r, index |-> index, n |-> n, cl |-> ChunkClosure(cl)]

QueuedUtterances == {synthQueue[i] : i \in 1..Len(synthQueue)}
\* Responses with an utterance spoken, queued, or awaiting its end / error event.
ActiveResponses == {u.resp : u \in QueuedUtterances \cup synthEvents}

\* window.speechSynthesis.cancel(): every utterance leaves the queue and gets
\* an error event (its handlers stay attached).
CancelledEvents == synthEvents \cup QueuedUtterances

\* forceStopTTS, lines 533-544: the re-cancels scheduled 50, 150 and 300 ms later.
RecancelDelays == {50, 150, 300}
RecancelTimers ==
    { [kind |-> "recancel", delay |-> d, n |-> 0, cl |-> NoClosure] :
          d \in RecancelDelays }
RestartTimer(n, cl) == [kind |-> "restart", delay |-> 100, n |-> n, cl |-> cl]
GreetTimer(cl) == [kind |-> "greet", delay |-> 200, n |-> 1, cl |-> cl]
GreetTimers == {t \in timers : t.kind = "greet"}

\* The first stop request that interrupts a response is remembered.
MarkStopped(cause) ==
    [r \in DOMAIN stoppedBy |->
        IF r \in ActiveResponses /\ stoppedBy[r] = "none" THEN cause ELSE stoppedBy[r]]

\* ttsStopRequestedRef.current = true; forceStopTTS(); setIsAgentSpeaking(false)
\* as the stop paths do it (lines 617-619, 864-866, 917-919, 945-947).
StopSpeech(cause) ==
    /\ ttsStopRequested' = TRUE
    /\ synthQueue' = <<>>
    /\ synthEvents' = CancelledEvents
    /\ timers' = timers \cup RecancelTimers
    /\ isAgentSpeaking' = FALSE
    /\ stoppedBy' = MarkStopped(cause)

\* recognitionRef.current.start(); setIsListening(true) inside a try: start()
\* throws on a recognizer that is already started and the catch leaves
\* isListening as onFail says.
StartRecognition(onFail) ==
    IF recActive
    THEN /\ isListening' = onFail
         /\ UNCHANGED recActive
    ELSE /\ recActive' = TRUE
         /\ isListening' = TRUE

\* speakResponse(text), lines 735-839, for a text of n chunks, called from a
\* handler with closure cl; tm is the timer set the caller leaves.
SpeakResponse(n, cl, tm) ==
    IF cl.muted \/ isShuttingDown
    THEN /\ timers' = tm
         /\ UNCHANGED <<isListening, recActive, recognitionPausedByTTS, ttsStopRequested,
                        isAgentSpeaking, synthQueue, synthEvents, nextResp>>
    ELSE IF cl.speaking
    THEN \* forceStopTTS(), then speakResponse(text) again 100 ms later
         /\ synthQueue' = <<>>
         /\ synthEvents' = CancelledEvents
         /\ timers' = tm \cup RecancelTimers \cup {RestartTimer(n, cl)}
         /\ UNCHANGED <<isListening, recActive, recognitionPausedByTTS, ttsStopRequested,
                        isAgentSpeaking, nextResp>>
    ELSE /\ IF cl.listening
            THEN /\ recActive' = FALSE
                 /\ recognitionPausedByTTS' = TRUE
                 /\ isListening' = FALSE
            ELSE UNCHANGED <<recActive, recognitionPausedByTTS, isListening>>
         /\ ttsStopRequested' = FALSE
         /\ synthEvents' = CancelledEvents
         /\ timers' = tm
         /\ IF n = 0
            THEN /\ synthQueue' = <<>>
                 /\ UNCHANGED <<isAgentSpeaking, nextResp>>
            ELSE /\ nextResp <= MaxResponses
                 /\ synthQueue' = <<Utterance(nextResp, 0, n, cl)>>
                 /\ isAgentSpeaking' = TRUE
                 /\ nextResp' = nextResp + 1

InitCall ==
    /\ isListening = FALSE
    /\ isAgentSpeaking = FALSE
    /\ isAIMuted = FALSE
    /\ isAIListeningDisabled = FALSE
    /\ recognitionPausedByTTS = FALSE
    /\ ttsStopRequested = FALSE
    /\ isShuttingDown = FALSE
    /\ greeted = FALSE
    /\ lastMicState = "null"
    /\ lastQuestion = 0
    /\ micEnabled = FALSE
    /\ recActive = FALSE
    /\ synthQueue = <<>>
    /\ synthEvents = {}
    /\ timers = {}
    /\ fetches = <<>>
    /\ gestures = 0
    /\ nextResp = 1
    /\ stoppedBy = [r \in 1..MaxResponses |-> "none"]

\* call.microphone.enabled as lastMicStateRef holds it
\* One more click or control change of the user.
Gesture == gestures < MaxGestures /\ gestures' = gestures + 1

MicState == IF micEnabled THEN "true" ELSE "false"

\* The user toggles the microphone in the call controls.
ToggleMic ==
    /\ Gesture
    /\ micEnabled' = ~micEnabled
    /\ UNCHANGED <<isListening, isAgentSpeaking, isAIMuted, isAIListeningDisabled,
                   recognitionPausedByTTS, ttsStopRequested, isShuttingDown, greeted,
                   lastMicState, lastQuestion, recActive, synthQueue, synthEvents,
                   timers, fetches, nextResp, stoppedBy>>

\* checkMicState, lines 588-625, run by the effect (not installed while AI
\* listening is disabled, line 586) and its 500 ms interval; a run that finds
\* the mic state unchanged does nothing.
CheckMicState ==
    /\ UNCHANGED gestures
    /\ ~isAIListeningDisabled
    /\ lastMicState # MicState
    /\ lastMicState' = MicState
    /\ IF micEnabled /\ ~isListening
       THEN /\ IF ~isShuttingDown
               THEN StartRecognition(isListening)
               ELSE UNCHANGED <<isListening, recActive>>
            /\ UNCHANGED <<ttsStopRequested, synthQueue, synthEvents, timers,
                           isAgentSpeaking, stoppedBy>>
       ELSE IF ~micEnabled /\ isListening
       THEN /\ recActive' = FALSE
            /\ isListening' = FALSE
            /\ IF isAgentSpeaking
               THEN StopSpeech("other")
               ELSE UNCHANGED <<ttsStopRequested, synthQueue, synthEvents, timers,
                                isAgentSpeaking, stoppedBy>>
       ELSE UNCHANGED <<isListening, recActive, ttsStopRequested, synthQueue,
                        synthEvents, timers, isAgentSpeaking, stoppedBy>>
    /\ UNCHANGED <<isAIMuted, isAIListeningDisabled, recognitionPausedByTTS, isShuttingDown,
                   greeted, lastQuestion, micEnabled, fetches, nextResp>>

\* recognition.onresult -> handleUserMessage, lines 650-701: the question is
\* only stored.
HandleUserMessage(q) ==
    /\ UNCHANGED gestures
    /\ recActive
    /\ ~isShuttingDown
    /\ lastQuestion' = q
    /\ UNCHANGED <<isListening, isAgentSpeaking, isAIMuted, isAIListeningDisabled,
                   recognitionPausedByTTS, ttsStopRequested, isShuttingDown, greeted,
                   lastMicState, micEnabled, recActive, synthQueue, synthEvents,
                   timers, fetches, nextResp, stoppedBy>>

\* The recognizer ends by itself (silence, an error) and its onend / onerror
\* handler runs, lines 666-675.
RecognitionEnds ==
    /\ UNCHANGED gestures
    /\ recActive
    /\ recActive' = FALSE
    /\ isListening' = IF isShuttingDown THEN isListening ELSE FALSE
    /\ UNCHANGED <<isAgentSpeaking, isAIMuted, isAIListeningDisabled,
                   recognitionPausedByTTS, ttsStopRequested, isShuttingDown, greeted,
                   lastMicState, lastQuestion, micEnabled, synthQueue, synthEvents,
                   timers, fetches, nextResp, stoppedBy>>

\* handleManualTrigger, lines 860-912, up to its await or its end.
HandleManualTrigger ==
    /\ Gesture
    /\ IF isAgentSpeaking
       THEN /\ StopSpeech("other")
            /\ UNCHANGED <<isListening, recActive, recognitionPausedByTTS, nextResp,
                           fetches, greeted>>
       ELSE IF lastQuestion # 0 /\ ~isAIMuted
       THEN /\ Len(fetches) < MaxFetches
            /\ fetches' = Append(fetches, [cl |-> Closure, message |-> lastQuestion])
            /\ UNCHANGED <<isListening, recActive, recognitionPausedByTTS, ttsStopRequested,
                           isAgentSpeaking, synthQueue, synthEvents, timers, nextResp,
                           stoppedBy, greeted>>
       ELSE IF ~greeted /\ ~isAIMuted
       THEN \* greetIfNeededOnGesture, lines 842-857
            /\ isShuttingDown \/ Cardinality(GreetTimers) < MaxGreetTimers
            /\ timers' = IF isShuttingDown THEN timers ELSE timers \cup {GreetTimer(Closure)}
            /\ UNCHANGED <<isListening, recActive, recognitionPausedByTTS, ttsStopRequested,
                           isAgentSpeaking, synthQueue, synthEvents, nextResp, stoppedBy,
                           fetches, greeted>>
       ELSE IF greeted /\ lastQuestion = 0 /\ ~isAIMuted
       THEN /\ SpeakResponse(1, Closure, timers)
            /\ UNCHANGED <<stoppedBy, fetches, greeted>>
       ELSE UNCHANGED <<isListening, recActive, recognitionPausedByTTS, ttsStopRequested,
                        isAgentSpeaking, synthQueue, synthEvents, timers, nextResp,
                        stoppedBy, fetches, greeted>>
    /\ UNCHANGED <<isAIMuted, isAIListeningDisabled, isShuttingDown, lastMicState,
                   lastQuestion, micEnabled>>

\* handleManualTrigger after its await, lines 886-903, for the i-th pending
\* request: it fails (caught), or answers a text of n chunks that is spoken,
\* and lastQuestion is cleared.
FetchAnswers(i, ok, n) ==
    /\ UNCHANGED gestures
    /\ i \in 1..Len(fetches)
    /\ fetches' = SubSeq(fetches, 1, i - 1) \o SubSeq(fetches, i + 1, Len(fetches))
    /\ IF ~ok \/ isShuttingDown
       THEN UNCHANGED <<isListening, recActive, recognitionPausedByTTS, ttsStopRequested,
                        isAgentSpeaking, synthQueue, synthEvents, timers, nextResp,
                        lastQuestion>>
       ELSE /\ SpeakResponse(n, fetches[i].cl, timers)
            /\ lastQuestion' = 0
    /\ UNCHANGED <<isAIMuted, isAIListeningDisabled, isShuttingDown, greeted, lastMicState,
                   micEnabled, stoppedBy>>
FetchReturns(i) == \E ok \in BOOLEAN, n \in 0..MaxChunks : FetchAnswers(i, ok, n)

\* A setTimeout callback runs: a re-cancel of forceStopTTS (lines 533-540, in
\* the order 50, 150, 300 ms), the restart of speakResponse (lines 746-750), or
\* the greeting of greetIfNeededOnGesture (lines 846-856).
TimerFires(t) ==
    /\ UNCHANGED gestures
    /\ t \in timers
    /\ CASE t.kind = "recancel" ->
              /\ \A o \in timers :
                    ~(o.kind = "recancel" /\ o.delay < t.delay)
              /\ synthQueue' = <<>>
              /\ synthEvents' = CancelledEvents
              /\ timers' = timers \ {t}
              /\ UNCHANGED <<isListening, recActive, recognitionPausedByTTS,
                             ttsStopRequested, isAgentSpeaking, nextResp, greeted>>
         [] t.kind = "restart" ->
              /\ IF ~isShuttingDown /\ ~t.cl.muted
                 THEN SpeakResponse(t.n, t.cl, timers \ {t})
                 ELSE /\ timers' = timers \ {t}
                      /\ UNCHANGED <<isListening, recActive, recognitionPausedByTTS,
                                     ttsStopRequested, isAgentSpeaking, synthQueue,
                                     synthEvents, nextResp>>
              /\ greeted' = greeted
         [] t.kind = "greet" ->
              IF greeted \/ isShuttingDown \/ t.cl.muted
              THEN /\ timers' = timers \ {t}
                   /\ UNCHANGED <<isListening, recActive, recognitionPausedByTTS,
                                  ttsStopRequested, isAgentSpeaking, synthQueue,
                                  synthEvents, nextResp, greeted>>
              ELSE /\ greeted' = TRUE
                   /\ SpeakResponse(t.n, t.cl, timers \ {t})
    /\ UNCHANGED <<isAIMuted, isAIListeningDisabled, isShuttingDown, lastMicState,
                   lastQuestion, micEnabled, fetches, stoppedBy>>

\* The engine finishes the utterance it is speaking: its end event is queued
\* and the next queued utterance starts.
UtteranceEnds ==
    /\ UNCHANGED gestures
    /\ synthQueue # <<>>
    /\ synthEvents' = synthEvents \cup {Head(synthQueue)}
    /\ synthQueue' = Tail(synthQueue)
    /\ UNCHANGED <<isListening, isAgentSpeaking, isAIMuted, isAIListeningDisabled,
                   recognitionPausedByTTS, ttsStopRequested, isShuttingDown, greeted,
                   lastMicState, lastQuestion, micEnabled, recActive, timers, fetches,
                   nextResp, stoppedBy>>

\* utterance.onend / utterance.onerror (lines 819-833) and the speakChunkAt
\* (lines 771-836) they call.
UtteranceEvent(u) ==
    /\ UNCHANGED gestures
    /\ u \in synthEvents
    /\ synthEvents' = synthEvents \ {u}
    /\ IF isShuttingDown \/ ttsStopRequested \/ u.cl.muted
       THEN /\ isAgentSpeaking' = FALSE
            /\ UNCHANGED <<isListening, recActive, recognitionPausedByTTS,
                           synthQueue>>
       ELSE IF u.index + 1 >= u.n
       THEN /\ isAgentSpeaking' = FALSE
            /\ synthQueue' = synthQueue
            /\ IF recognitionPausedByTTS /\ micEnabled /\ ~u.cl.listenDisabled
               THEN /\ StartRecognition(FALSE)
                    /\ recognitionPausedByTTS' = FALSE
               ELSE UNCHANGED <<isListening, recActive, recognitionPausedByTTS>>
       ELSE /\ synthQueue' = Append(synthQueue, Utterance(u.resp, u.index + 1, u.n, u.cl))
            /\ UNCHANGED <<isAgentSpeaking, isListening, recActive, recognitionPausedByTTS>>
    /\ UNCHANGED <<isAIMuted, isAIListeningDisabled, ttsStopRequested, isShuttingDown,
                   greeted, lastMicState, lastQuestion, micEnabled, timers, fetches,
                   nextResp, stoppedBy>>

\* handleVoiceChange, lines 915-928
HandleVoiceChange ==
    /\ Gesture
    /\ StopSpeech("other")
    /\ greeted' = FALSE
    /\ UNCHANGED <<isListening, isAIMuted, isAIListeningDisabled, recognitionPausedByTTS,
                   isShuttingDown, lastMicState, lastQuestion, micEnabled, recActive,
                   fetches, nextResp>>

\* handleTestVoice, lines 931-936
HandleTestVoice ==
    /\ Gesture
    /\ ~isAIMuted /\ ~isAgentSpeaking
    /\ SpeakResponse(1, Closure, timers)
    /\ UNCHANGED <<isAIMuted, isAIListeningDisabled, isShuttingDown, greeted, lastMicState,
                   lastQuestion, micEnabled, fetches, stoppedBy>>

\* A mute handler that leaves the recognizer as it is.
MuteLeavesRecognition ==
    UNCHANGED <<isListening, recActive>>

\* The recognizer start of handleToggleAIMute, lines 950-963.
MuteStartsRecognition ==
    IF micEnabled /\ ~isAIListeningDisabled /\ ~isListening /\ ~isShuttingDown
    THEN StartRecognition(isListening)
    ELSE UNCHANGED <<isListening, recActive>>

\* handleToggleAIMute, lines 939-965
HandleToggleAIMute ==
    /\ Gesture
    /\ isAIMuted' = ~isAIMuted
    /\ IF isAIMuted
       THEN UNCHANGED <<ttsStopRequested, synthQueue, synthEvents, timers, isAgentSpeaking,
                        stoppedBy, isListening, recActive>>
       ELSE /\ StopSpeech("mute")
            /\ MuteStartsRecognition
    /\ UNCHANGED <<isAIListeningDisabled, recognitionPausedByTTS, isShuttingDown, greeted,
                   lastMicState, lastQuestion, micEnabled, fetches, nextResp>>

\* handleToggleAIListening, lines 967-988
HandleToggleAIListening ==
    /\ Gesture
    /\ isAIListeningDisabled' = ~isAIListeningDisabled
    /\ IF isAIListeningDisabled
       THEN IF micEnabled /\ ~isListening
            THEN StartRecognition(isListening)
            ELSE UNCHANGED <<isListening, recActive>>
       ELSE /\ recActive' = FALSE
            /\ isListening' = FALSE
    /\ UNCHANGED <<isAgentSpeaking, isAIMuted, recognitionPausedByTTS, ttsStopRequested,
                   isShuttingDown, greeted, lastMicState, lastQuestion, micEnabled,
                   synthQueue, synthEvents, timers, fetches, nextResp, stoppedBy>>

\* stopAudioPipelines (lines 1016-1023: tab hidden, pagehide, beforeunload);
\* handleLeaveAndStopAudio (lines 991-997) and the callEnded handler (lines
\* 1049-1057) do the same to this state.
StopAudioPipelines ==
    /\ Gesture
    /\ ~isShuttingDown
    /\ StopSpeech("other")
    /\ isShuttingDown' = TRUE
    /\ recActive' = FALSE
    /\ isListening' = FALSE
    /\ UNCHANGED <<isAIMuted, isAIListeningDisabled, recognitionPausedByTTS, greeted,
                   lastMicState, lastQuestion, micEnabled, fetches, nextResp>>

-----------------------------------------------------------------------------
\* The project-plan route (POST / GET /api/ai-project-plan,
\* src/app/api/subtasks/route.ts lines 142-539).
\*
\* Text is a sequence of one-character strings, so that toLowerCase() and
\* includes() are computed on the characters.
Upper == <<"A","B","C","D","E","F","G","H","I","J","K","L","M",
           "N","O","P","Q","R","S","T","U","V","W","X","Y","Z">>
Lower == <<"a","b","c","d","e","f","g","h","i","j","k","l","m",
           "n","o","p","q","r","s","t","u","v","w","x","y","z">>
LowerChar(c) ==
    IF \E i \in 1..Len(Upper) : Upper[i] = c
    THEN Lower[CHOOSE i \in 1..Len(Upper) : Upper[i] = c]
    ELSE c
\* s.toLowerCase()
ToLowerCase(s) == [i \in 1..Len(s) |-> LowerChar(s[i])]
\* s.includes(k): k occurs in s as a substring
Includes(s, k) ==
    \E i \in 1..(Len(s) - Len(k) + 1) : SubSeq(s, i, i + Len(k) - 1) = k

\* The keywords of lines 367, 390 and 414.
FrontendKeys == { <<"f","r","o","n","t","e","n","d">>, <<"u","i">>, <<"u","x">>,
                  <<"u","s","e","r"," ","i","n","t","e","r","f","a","c","e">> }
BackendKeys == { <<"b","a","c","k","e","n","d">>, <<"a","p","i">>,
                 <<"d","a","t","a","b","a","s","e">>, <<"s","e","r","v","e","r">> }
LaunchKeys == { <<"i","m","p","l","e","m","e","n","t","a","t","i","o","n">>,
                <<"d","e","p","l","o","y","m","e","n","t">>,
                <<"l","a","u","n","c","h">>, <<"d","e","l","i","v","e","r","y">> }
IncludesAny(s, keys) == \E k \in keys : Includes(s, k)

\* A task of a plan: estimatedHours 0 and title "" stand for an absent field.
PlanTask(title, priority, hours, subs) ==
    [title |-> title, priority |-> priority, estimatedHours |-> hours, subtasks |-> subs]
\* A phase of a plan; arr is Array.isArray(phase.tasks).
PlanPhase(name, order, color, ts) ==
    [name |-> name, order |-> order, color |-> color, arr |-> TRUE, tasks |-> ts]

\* The canned phases of lines 368-387, 391-411, 415-434 and 439-458.
FrontendPhase ==
    PlanPhase("Frontend Development", 1, "#3B82F6",
        <<PlanTask("Build responsive UI/UX foundation", "high", 16,
            <<"Design system setup", "Responsive layout implementation",
              "Accessibility features", "State management setup">>)>>)
BackendPhase ==
    PlanPhase("Backend Development", 2, "#10B981",
        <<PlanTask("Implement robust backend architecture", "high", 20,
            <<"Framework selection and setup", "Database design and implementation",
              "API development", "Authentication system", "Scalability planning">>)>>)
LaunchPhase ==
    PlanPhase("Implementation & Launch", 3, "#F59E0B",
        <<PlanTask("Execute project implementation plan", "medium", 12,
            <<"Phase coordination", "Testing and QA", "Deployment preparation",
              "Quality assurance">>)>>)
PlanningPhase ==
    PlanPhase("Project Planning & Setup", 1, "#8B5CF6",
        <<PlanTask("Analyze meeting outcomes and create action plan", "high", 6,
            <<"Extract key decisions", "Create detailed task breakdown",
              "Assign team responsibilities", "Set project milestones">>)>>)

\* A slip: the three family tests chained with else, so that only the first
\* matched family is pushed.
FirstDetectedPhase(lowerTranscript) ==
    IF IncludesAny(lowerTranscript, FrontendKeys) THEN <<FrontendPhase>>
    ELSE IF IncludesAny(lowerTranscript, BackendKeys) THEN <<BackendPhase>>
    ELSE IF IncludesAny(lowerTranscript, LaunchKeys) THEN <<LaunchPhase>>
    ELSE <<>>
\* detectedPhases after the three ifs of lines 367-435
DetectedPhases(lowerTranscript) ==
    (IF IncludesAny(lowerTranscript, FrontendKeys) THEN <<FrontendPhase>> ELSE <<>>)
    \o (IF IncludesAny(lowerTranscript, BackendKeys) THEN <<BackendPhase>> ELSE <<>>)
    \o (IF IncludesAny(lowerTranscript, LaunchKeys) THEN <<LaunchPhase>> ELSE <<>>)

\* tasks.reduce((sum, task) => sum + (task.estimatedHours || 0), 0)
RECURSIVE SumHours(_)
SumHours(ts) ==
    IF ts = <<>> THEN 0 ELSE Head(ts).estimatedHours + SumHours(Tail(ts))
\* phases.reduce((sum, phase) => sum + phase.tasks.length, 0), lines 478
RECURSIVE TotalTasks(_)
TotalTasks(ps) ==
    IF ps = <<>> THEN 0 ELSE Len(Head(ps).tasks) + TotalTasks(Tail(ps))
\* lines 479-480
RECURSIVE TotalHours(_)
TotalHours(ps) ==
    IF ps = <<>> THEN 0 ELSE SumHours(Head(ps).tasks) + TotalHours(Tail(ps))

\* workloadAnalysis as the pipeline reads it; def is FALSE for undefined.
Workload(tt, h) == [def |-> TRUE, totalTasks |-> tt, estimatedTotalHours |-> h]
NoWorkload == [def |-> FALSE, totalTasks |-> 0, estimatedTotalHours |-> 0]

\* createFallbackPlan(transcript, meetingName), lines 359-491
createFallbackPlan(transcript) ==
    LET detected == DetectedPhases(ToLowerCase(transcript))
        phases == IF Len(detected) = 0 THEN <<PlanningPhase>> ELSE detected
    IN [phases |-> phases,
        suggestedAssignees |-> TRUE,
        workloadAnalysis |-> Workload(TotalTasks(phases), TotalHours(phases))]

\* JSON text is a sequence of tokens.
Tok(t) == [t |-> t, s |-> "", n |-> 0]
TStr(s) == [t |-> "str", s |-> s, n |-> 0]
TNum(n) == [t |-> "num", s |-> "", n |-> n]

\* JSON.stringify of the subtasks, tasks and phases arrays (line 291).
StringifySubtasks(subs) == [i \in 1..Len(subs) |-> TStr(subs[i])]
RECURSIVE StringifyTasks(_)
StringifyTasks(ts) ==
    IF ts = <<>> THEN <<>>
    ELSE <<Tok("{"), TStr(Head(ts).title), TNum(Head(ts).estimatedHours), Tok("[")>>
         \o StringifySubtasks(Head(ts).subtasks)
         \o <<Tok("]"), Tok("}")>>
         \o StringifyTasks(Tail(ts))
RECURSIVE StringifyPhaseList(_)
StringifyPhaseList(ps) ==
    IF ps = <<>> THEN <<>>
    ELSE <<Tok("{"), TStr(Head(ps).name), TNum(Head(ps).order), Tok("[")>>
         \o StringifyTasks(Head(ps).tasks)
         \o <<Tok("]"), Tok("}")>>
         \o StringifyPhaseList(Tail(ps))
StringifyPhases(ps) == <<Tok("[")>> \o StringifyPhaseList(ps) \o <<Tok("]")>>
\* JSON.stringify(workloadAnalysis), line 293: undefined gives no text at all.
StringifyWorkload(w) ==
    IF ~w.def THEN <<>>
    ELSE <<Tok("{"), TStr("totalTasks"), TNum(w.totalTasks),
           TStr("estimatedTotalHours"), TNum(w.estimatedTotalHours), Tok("}")>>

\* JSON.parse of a stored phases text, read for its shape: one entry per
\* phase object, holding the number of task objects in it.
RECURSIVE ScanTaskCounts(_, _, _)
ScanTaskCounts(toks, depth, counts) ==
    IF toks = <<>> THEN counts
    ELSE LET h == Head(toks)
         IN CASE h.t = "{" /\ depth = 1 ->
                     ScanTaskCounts(Tail(toks), depth + 1, Append(counts, 0))
              [] h.t = "{" /\ depth = 3 ->
                     ScanTaskCounts(Tail(toks), depth + 1,
                                    [counts EXCEPT ![Len(counts)] = @ + 1])
              [] h.t = "[" ->
                     ScanTaskCounts(Tail(toks), depth + 1, counts)
              [] h.t \in {"]", "}"} ->
                     ScanTaskCounts(Tail(toks), depth - 1, counts)
              [] OTHER ->
                     ScanTaskCounts(Tail(toks), depth, counts)
ParseTaskCounts(text) == ScanTaskCounts(text, 0, <<>>)
\* JSON.parse of a stored phases text, read for the estimatedHours of its
\* task objects: their sum.
RECURSIVE ScanHours(_, _)
ScanHours(toks, depth) ==
    IF toks = <<>> THEN 0
    ELSE LET h == Head(toks)
         IN CASE h.t \in {"[", "{"} -> ScanHours(Tail(toks), depth + 1)
              [] h.t \in {"]", "}"} -> ScanHours(Tail(toks), depth - 1)
              [] h.t = "num" /\ depth = 4 -> h.n + ScanHours(Tail(toks), depth)
              [] OTHER -> ScanHours(Tail(toks), depth)
ParseTotalHours(text) == ScanHours(text, 0)
\* JSON.parse(existingPlan.workloadAnalysis), line 530
ParseWorkload(text) == Workload(text[3].n, text[5].n)

\* phases.map(p => p.tasks.length)
TaskCounts(ps) == [i \in 1..Len(ps) |-> Len(ps[i].tasks)]

-----------------------------------------------------------------------------
\* What /api/groq-chat answers to the plan prompt, by what lines 252-276
\* read of it: the HTTP status, whether aiData.response parses as JSON, and
\* the parsed value.
RawPhase(name, order, arr, ts) ==
    [name |-> name, order |-> order, color |-> "", arr |-> arr, tasks |-> ts]
LLMTask(title, hours, subs) == PlanTask(title, "", hours, subs)
LLMPlans ==
    { \* a consistent plan
      [phases |-> <<RawPhase("Implementation", 1, TRUE, <<LLMTask("Ship it", 8, <<"Test">>)>>)>>,
       suggestedAssignees |-> TRUE, workloadAnalysis |-> Workload(1, 8)],
      \* the totals of the prompt's example kept by the model
      [phases |-> <<RawPhase("Frontend Development", 1, TRUE,
                        <<LLMTask("Build UI", 8, <<>>), LLMTask("Style UI", 0, <<"Pick colors">>)>>),
                    RawPhase("", 0, FALSE, <<>>)>>,
       suggestedAssignees |-> TRUE, workloadAnalysis |-> Workload(5, 40)],
      \* no workloadAnalysis key
      [phases |-> <<RawPhase("Design", 1, TRUE, <<LLMTask("Sketch", 4, <<>>)>>)>>,
       suggestedAssignees |-> TRUE, workloadAnalysis |-> NoWorkload],
      \* a task without a title
      [phases |-> <<RawPhase("Backend Development", 1, TRUE,
                        <<LLMTask("Design schema", 8, <<"Tables">>), LLMTask("", 4, <<>>)>>)>>,
       suggestedAssignees |-> TRUE, workloadAnalysis |-> Workload(2, 12)] }
NoPlan == [phases |-> <<>>, suggestedAssignees |-> FALSE, workloadAnalysis |-> NoWorkload]
LLMAnswers ==
    { [ok |-> FALSE, text |-> "none", plan |-> NoPlan] }
    \cup { [ok |-> TRUE, text |-> k, plan |-> NoPlan] :
               k \in {"notJson", "noPhasesArray", "nullPhase"} }
    \cup { [ok |-> TRUE, text |-> "plan", plan |-> p] : p \in LLMPlans }
NoLLMAnswer == [ok |-> FALSE, text |-> "notAsked", plan |-> NoPlan]

\* `Phase ${index + 1}`
PhaseName(i) == CASE i = 1 -> "Phase 1" [] i = 2 -> "Phase 2" [] OTHER -> "Phase n"
\* lines 269-275
NormalizePhases(raw) ==
    [i \in 1..Len(raw) |->
        PlanPhase(IF raw[i].name = "" THEN PhaseName(i) ELSE raw[i].name,
                  IF raw[i].order = 0 THEN i ELSE raw[i].order,
                  IF raw[i].color = "" THEN "#3B82F6" ELSE raw[i].color,
                  IF raw[i].arr THEN raw[i].tasks ELSE <<>>)]

\* A slip: every failure of the LLM call is read as an answer.
LLMCallNeverFailed(o) == FALSE
\* !aiResponse.ok, line 252
LLMCallFailed(o) == ~o.ok

\* A slip: the text is taken for a plan whenever it is JSON.
ParsesAsJson(o) == o.text # "notJson"
\* The try of lines 259-276 completes: the text is JSON, has a phases array,
\* and the map over it does not throw.
ParsesAsPlan(o) == o.text = "plan"

\* lines 256-283: [path, plan]
PlanFromAnswer(o, transcript) ==
    IF ParsesAsPlan(o)
    THEN [path |-> "llm",
          plan |-> [o.plan EXCEPT !.phases = NormalizePhases(o.plan.phases)]]
    ELSE [path |-> "fallback", plan |-> createFallbackPlan(transcript)]

-----------------------------------------------------------------------------
\* The tables the route writes.  A row is written by one INSERT; an INSERT
\* fails (and the handler's catch answers 500) when a NOT NULL column of
\* src/db/schema.ts gets no value.  ok tells whether the row can be inserted.
Row(tbl, gen, meetingId, title) ==
    [tbl |-> tbl, gen |-> gen, meetingId |-> meetingId, title |-> title,
     ok |-> title # ""]

\* The INSERTs of lines 298-339 for one plan, in the order the loops issue them.
SubtaskRows(subs, gen, m) == [i \in 1..Len(subs) |-> Row("subtasks", gen, m, subs[i])]
RECURSIVE TaskRows(_, _, _)
TaskRows(ts, gen, m) ==
    IF ts = <<>> THEN <<>>
    ELSE <<Row("tasks", gen, m, Head(ts).title)>>
         \o SubtaskRows(Head(ts).subtasks, gen, m)
         \o TaskRows(Tail(ts), gen, m)
RECURSIVE PhaseRows(_, _, _)
PhaseRows(ps, gen, m) ==
    IF ps = <<>> THEN <<>>
    ELSE <<Row("projectPhases", gen, m, Head(ps).name)>>
         \o TaskRows(Head(ps).tasks, gen, m)
         \o PhaseRows(Tail(ps), gen, m)
\* The rows inserted before the first INSERT that fails.
Inserted(rows) ==
    IF \E i \in 1..Len(rows) : ~rows[i].ok
    THEN SubSeq(rows, 1, (CHOOSE i \in 1..Len(rows) :
                              /\ ~rows[i].ok
                              /\ \A j \in 1..(i - 1) : rows[j].ok) - 1)
    ELSE rows
InTable(rows, tbl) == SelectSeq(rows, LAMBDA r : r.tbl = tbl)

\* The aiProjectPlans row of lines 286-295; id stands for nanoid().
PlanRow(id, meetingId, plan) ==
    [id |-> id, meetingId |-> meetingId,
     phases |-> StringifyPhases(plan.phases),
     workloadAnalysis |-> StringifyWorkload(plan.workloadAnalysis)]
\* phases, suggestedAssignees and workloadAnalysis are NOT NULL (schema.ts
\* lines 164-166); JSON.stringify(undefined) is undefined.
PlanRowInsertable(plan) == plan.suggestedAssignees /\ plan.workloadAnalysis.def

PlanMeetingIds == {"m1"}
PlanRequestIds == {"", "m1", "m2"}     \* missing, existing, not existing

\* Transcripts /api/conversation-sync?format=joined answers with.
TxtHello == <<"U","s","e","r",":"," ","h","e","l","l","o">>
TxtBackend == <<"A","l","i","c","e",":"," ","B","a","c","k","e","n","d"," ","f","i","r","s","t">>
TxtBuildBackend == <<"b","u","i","l","d"," ","t","h","e"," ","b","a","c","k","e","n","d">>
TxtRapid == <<"r","a","p","i","d">>
TxtLaunchUX == <<"U","X"," ","t","h","e","n"," ","l","a","u","n","c","h">>
TxtAll == <<"f","r","o","n","t","e","n","d",","," ","A","P","I",","," ","d","e","l","i","v","e","r","y">>
PlanTranscripts == {<<>>, TxtHello, TxtBackend, TxtBuildBackend, TxtRapid, TxtLaunchUX, TxtAll}

\* The answer to the fetch of line 173: a 2xx answer with the transcript, or a
\* non-2xx answer whose body is the route's JSON error (no transcript field)
\* or is not JSON at all.
TranscriptAnswers ==
    { [ok |-> TRUE, json |-> TRUE, transcript |-> t] : t \in PlanTranscripts }
    \cup { [ok |-> FALSE, json |-> j, transcript |-> <<>>] : j \in BOOLEAN }
NoTranscriptAnswer == [ok |-> TRUE, json |-> TRUE, transcript |-> <<>>]

NoPlanData == [path |-> "none", plan |-> NoPlan]
NoPlanGot == [status |-> 0, id |-> 0, nPhases |-> 0, workloadAnalysis |-> NoWorkload]
TableSizes == <<Len(aiProjectPlans), Len(projectPhases), Len(tasks), Len(subtasks)>>

InitPlan ==
    /\ planPc = "idle"
    /\ planReq = ""
    /\ transcriptAnswer = NoTranscriptAnswer
    /\ llmAnswer = NoLLMAnswer
    /\ planData = NoPlanData
    /\ planResp = 0
    /\ aiProjectPlans = <<>>
    /\ projectPhases = <<>>
    /\ tasks = <<>>
    /\ subtasks = <<>>
    /\ sizesBefore = <<0, 0, 0, 0>>
    /\ planRequests = 0
    /\ planGot = NoPlanGot

\* POST, lines 148-175: the request is read, the meeting looked up and the
\* transcript fetched.
PlanPOSTBegin ==
    /\ planPc \in {"idle", "done"}
    /\ planRequests < MaxPlanRequests
    /\ planRequests' = planRequests + 1
    /\ sizesBefore' = TableSizes
    /\ llmAnswer' = NoLLMAnswer
    /\ planData' = NoPlanData
    /\ \E id \in PlanRequestIds :
         /\ planReq' = id
         /\ IF id = ""
            THEN planResp' = 400 /\ planPc' = "done" /\ transcriptAnswer' = NoTranscriptAnswer
            ELSE IF id \notin PlanMeetingIds
            THEN planResp' = 404 /\ planPc' = "done" /\ transcriptAnswer' = NoTranscriptAnswer
            ELSE \E a \in TranscriptAnswers :
                   /\ transcriptAnswer' = a
                   /\ IF a.json
                      THEN planResp' = 0 /\ planPc' = "prompt"
                      ELSE planResp' = 500 /\ planPc' = "done"
    /\ UNCHANGED <<aiProjectPlans, projectPhases, tasks, subtasks, planGot>>

\* POST, lines 177-283: the LLM is prompted with the transcript and its
\* answer turned into a plan.
PlanPOSTPrompt ==
    /\ planPc = "prompt"
    /\ \E o \in LLMAnswers :
         /\ llmAnswer' = o
         /\ IF LLMCallFailed(o)
            THEN planResp' = 500 /\ planPc' = "done" /\ planData' = NoPlanData
            ELSE /\ planData' = PlanFromAnswer(o, transcriptAnswer.transcript)
                 /\ planPc' = "save"
                 /\ planResp' = 0
    /\ UNCHANGED <<planReq, transcriptAnswer, aiProjectPlans, projectPhases, tasks,
                   subtasks, sizesBefore, planRequests, planGot>>

\* POST, lines 285-355: the plan document, then a row per phase, task and
\* subtask; the first INSERT that fails ends the handler with 500 and leaves
\* the rows written before it.
PlanPOSTSave ==
    /\ planPc = "save"
    /\ planPc' = "done"
    /\ IF ~PlanRowInsertable(planData.plan)
       THEN /\ planResp' = 500
            /\ UNCHANGED <<aiProjectPlans, projectPhases, tasks, subtasks>>
       ELSE LET id == planRequests
                rows == PhaseRows(planData.plan.phases, id, planReq)
                done == Inserted(rows)
            IN /\ aiProjectPlans' = Append(aiProjectPlans, PlanRow(id, planReq, planData.plan))
               /\ projectPhases' = projectPhases \o InTable(done, "projectPhases")
               /\ tasks' = tasks \o InTable(done, "tasks")
               /\ subtasks' = subtasks \o InTable(done, "subtasks")
               /\ planResp' = IF Len(done) = Len(rows) THEN 200 ELSE 500
    /\ UNCHANGED <<planReq, transcriptAnswer, llmAnswer, planData, sizesBefore,
                   planRequests, planGot>>

\* GET, lines 493-539.  The select of lines 506-509 has no ORDER BY: any row
\* of the meeting may come first.
PlanGET ==
    /\ \E id \in PlanRequestIds :
         IF id = ""
         THEN planGot' = [NoPlanGot EXCEPT !.status = 400]
         ELSE LET mine == {i \in 1..Len(aiProjectPlans) : aiProjectPlans[i].meetingId = id}
              IN IF mine = {}
                 THEN planGot' = [NoPlanGot EXCEPT !.status = 404]
                 ELSE \E i \in mine :
                        planGot' = [status |-> 200, id |-> aiProjectPlans[i].id,
                                    nPhases |-> Len(SelectSeq(projectPhases,
                                                      LAMBDA r : r.meetingId = id)),
                                    workloadAnalysis |->
                                        ParseWorkload(aiProjectPlans[i].workloadAnalysis)]
    /\ UNCHANGED <<planPc, planReq, transcriptAnswer, llmAnswer, planData, planResp,
                   aiProjectPlans, projectPhases, tasks, subtasks, sizesBefore, planRequests>>

-----------------------------------------------------------------------------
\* The conversation store (POST / GET /api/conversation-sync,
\* src/unnamed/part_005).
ChunkMeetingIds == {"m1", "m3"}              \* rows of table meetings
ChunkRequestIds == {"", "m1", "m3", "m2"}    \* missing, existing, existing, not existing

NameAlice == <<"A","l","i","c","e">>
NameBob == <<"B","o","b">>
\* table user: id -> name
Users == [u \in {"u1"} |-> NameBob]

TextHi == <<"h","i">>
TextTwoLines == <<"o","k","\n","g","o">>
\* chunk.text of a request; <<>> is a missing or empty text
ChunkTexts == {<<>>, TextHi, TextTwoLines}
\* chunk.speaker, chunk.userName, chunk.userId of a request
ChunkSpeakers ==
    { [speaker |-> "ai", userName |-> <<>>, userId |-> ""],
      [speaker |-> "user", userName |-> <<>>, userId |-> ""],
      [speaker |-> "user", userName |-> NameAlice, userId |-> ""],
      [speaker |-> "user", userName |-> <<>>, userId |-> "u1"] }
\* chunk.ts of a request; 0 is a missing, non-numeric or non-positive ts
ClientTs == 0..MaxTs

\* finalUserName, lines 36-42
FinalUserName(sp) ==
    IF sp.userName = <<>> /\ sp.userId \in DOMAIN Users
    THEN Users[sp.userId]
    ELSE sp.userName

\* The row of lines 44-51; line 35 takes the client's ts when it is a positive
\* number and the server's clock otherwise.
ChunkRow(id, meetingId, sp, text, ts, now) ==
    [id |-> id, meetingId |-> meetingId,
     speaker |-> IF sp.speaker = "ai" THEN "ai" ELSE "user",
     userName |-> FinalUserName(sp),
     text |-> text,
     ts |-> IF ts > 0 THEN ts ELSE now]

\* A slip: the rows come back in whatever order the table holds them.
InAnyOrder(q) == TRUE
\* .orderBy(conversationChunks.ts), line 79
OrderedByTs(q) == \A i, j \in 1..Len(q) : i < j => q[i].ts <= q[j].ts

\* select().from(conversationChunks).where(eq(meetingId)).orderBy(ts): the
\* orders the database may answer in (rows of equal ts come in any order).
SelectChunks(meetingId) ==
    LET mine == SelectSeq(conversationChunks, LAMBDA r : r.meetingId = meetingId)
        n == Len(mine)
        perms == {f \in [1..n -> 1..n] : \A i, j \in 1..n : i # j => f[i] # f[j]}
    IN {q \in {[i \in 1..n |-> mine[f[i]]] : f \in perms} : OrderedByTs(q)}

\* `${c.speaker === "ai" ? "AI" : (c.userName || "User")}: ${c.text}`, line 83
ChunkLine(c) ==
    (IF c.speaker = "ai" THEN <<"A","I">>
     ELSE IF c.userName # <<>> THEN c.userName ELSE <<"U","s","e","r">>)
    \o <<":", " ">> \o c.text
\* lines.join("\n")
RECURSIVE JoinLines(_)
JoinLines(lines) ==
    IF lines = <<>> THEN <<>>
    ELSE IF Len(lines) = 1 THEN lines[1]
    ELSE lines[1] \o <<"\n">> \o JoinLines(Tail(lines))

NoChunkRead == [status |-> 0, meetingId |-> "", format |-> "", rows |-> <<>>,
                transcript |-> <<>>]

InitChunks ==
    /\ conversationChunks = <<>>
    /\ serverClock = 1
    /\ chunkResp = 0
    /\ chunkRead = NoChunkRead

\* Time passes on the server.
ClockTicks ==
    /\ serverClock < MaxTs
    /\ serverClock' = serverClock + 1
    /\ UNCHANGED <<conversationChunks, chunkResp, chunkRead>>

\* POST, lines 15-64
ChunkPOST ==
    /\ \E id \in ChunkRequestIds :
         IF id = ""
         THEN chunkResp' = 400 /\ UNCHANGED conversationChunks
         ELSE \E append \in BOOLEAN :
           IF ~append
           THEN chunkResp' = 200 /\ UNCHANGED conversationChunks
           ELSE \E text \in ChunkTexts :
             IF text = <<>>
             THEN chunkResp' = 400 /\ UNCHANGED conversationChunks
             ELSE IF id \notin ChunkMeetingIds
             THEN \* meeting_id references meetings.id: the INSERT throws
                  chunkResp' = 500 /\ UNCHANGED conversationChunks
             ELSE \E sp \in ChunkSpeakers, ts \in ClientTs :
                  /\ Len(conversationChunks) < MaxChunkRows
                  /\ conversationChunks' =
                        Append(conversationChunks,
                               ChunkRow(Len(conversationChunks) + 1, id, sp, text, ts,
                                        serverClock))
                  /\ chunkResp' = 200
    /\ UNCHANGED <<serverClock, chunkRead>>

\* GET, lines 66-102
ChunkGET ==
    /\ \E id \in ChunkRequestIds, format \in {"joined", "chunks"} :
         IF id = ""
         THEN chunkRead' = [NoChunkRead EXCEPT !.status = 400]
         ELSE \E rows \in SelectChunks(id) :
                chunkRead' = [status |-> 200, meetingId |-> id, format |-> format,
                              rows |-> IF format = "joined" THEN <<>> ELSE rows,
                              transcript |->
                                  IF format = "joined"
                                  THEN JoinLines([i \in 1..Len(rows) |-> ChunkLine(rows[i])])
                                  ELSE <<>>]
    /\ UNCHANGED <<conversationChunks, serverClock, chunkResp>>

-----------------------------------------------------------------------------
\* The heuristic fallback of generateInsights on the characters of the
\* transcript (src/unnamed/part_002, lines 212-269).
Digits == {"0","1","2","3","4","5","6","7","8","9"}
Letters == {Lower[i] : i \in 1..Len(Lower)} \cup {Upper[i] : i \in 1..Len(Upper)}
\* \s, within a line
IsSpace(c) == c \in {" ", "\t"}
\* \w
IsWordChar(c) == c \in Letters \cup Digits \cup {"_"}
\* [a-zA-Z0-9#.+\-_/ ]
SkillChars == Letters \cup Digits \cup {"#", ".", "+", "-", "_", "/", " "}

\* The lower-case literal lit stands in s at position p, in whatever case: the
\* keyword regexes run on the lower-cased text, skillRegex has the i flag.
StartsWith(s, p, lit) ==
    /\ p + Len(lit) - 1 <= Len(s)
    /\ \A i \in 1..Len(lit) : LowerChar(s[p + i - 1]) = lit[i]
\* \s* from p: the position after the white space
SkipSpaces(s, p) ==
    CHOOSE q \in p..(Len(s) + 1) :
        /\ \A i \in p..(q - 1) : IsSpace(s[i])
        /\ (q > Len(s) \/ ~IsSpace(s[q]))
\* (a|b|c) at p: the position after the first alternative that stands there, 0 if none
MatchAlt(s, p, alts) ==
    LET hits == {i \in 1..Len(alts) : StartsWith(s, p, alts[i])}
    IN IF hits = {} THEN 0
       ELSE p + Len(alts[CHOOSE i \in hits : \A j \in hits : i <= j])

PosWords ==
    << <<"g","o","o","d">>, <<"g","r","e","a","t">>, <<"c","o","o","l">>,
       <<"n","i","c","e">>, <<"l","o","v","e">>, <<"a","w","e","s","o","m","e">>,
       <<"w","o","r","k","s">> >>
NegWords ==
    << <<"b","a","d">>, <<"p","r","o","b","l","e","m">>, <<"i","s","s","u","e">>,
       <<"d","o","n","'","t">>, <<"c","a","n","t">>,
       <<"c","o","n","f","u","s","e","d">>, <<"s","t","u","c","k">> >>
\* (lower.match(/\b(w1|w2|...)\b/g) || []).length: the positions where a keyword
\* stands between two word boundaries (two such matches never overlap).
CountKeywords(s, words) ==
    Cardinality({p \in 1..Len(s) :
                    /\ MatchAlt(s, p, words) # 0
                    /\ (p = 1 \/ ~IsWordChar(s[p - 1]))
                    /\ (MatchAlt(s, p, words) > Len(s)
                            \/ ~IsWordChar(s[MatchAlt(s, p, words)]))})

\* s.split(sep), sep one character: the pieces between its occurrences
SplitOn(s, sep) ==
    LET cuts == {i \in 1..Len(s) : s[i] = sep}
        \* the k-th occurrence; 0 before the first, Len(s) + 1 after the last
        cut(k) == IF k = 0 THEN 0
                  ELSE IF k > Cardinality(cuts) THEN Len(s) + 1
                  ELSE CHOOSE c \in cuts : Cardinality({d \in cuts : d < c}) = k - 1
    IN [k \in 1..(Cardinality(cuts) + 1) |-> SubSeq(s, cut(k - 1) + 1, cut(k) - 1)]
\* parts.join(sep)
RECURSIVE JoinWith(_, _)
JoinWith(parts, sep) ==
    IF parts = <<>> THEN <<>>
    ELSE IF Len(parts) = 1 THEN parts[1]
    ELSE parts[1] \o <<sep>> \o JoinWith(Tail(parts), sep)
\* s.trim()
Trim(s) ==
    LET keep == {i \in 1..Len(s) : ~IsSpace(s[i])}
    IN IF keep = {} THEN <<>>
       ELSE SubSeq(s, CHOOSE i \in keep : \A j \in keep : i <= j,
                      CHOOSE i \in keep : \A j \in keep : j <= i)

\* (v => body)(v): the value is computed once.
Bind(v, body(_)) == CHOOSE r \in {body(x) : x \in {v}} : TRUE

\* skillRegex at position p of the line:
\* i \s* (am|'m) \s* (good|experienced|comfortable) \s* (with|at) \s+ and the
\* longest run of two or more skill characters, which is m[5].  A run of less
\* than two characters yields no skill whether or not the regex backtracks
\* into the white space, so it is taken as no match.  to = 0 when none.
SkillMatchAt(s, p) ==
    LET p1 == IF StartsWith(s, p, <<"i">>) THEN p + 1 ELSE 0
        p2 == IF p1 = 0 THEN 0
              ELSE MatchAlt(s, SkipSpaces(s, p1), <<<<"a","m">>, <<"'","m">>>>)
        p3 == IF p2 = 0 THEN 0
              ELSE MatchAlt(s, SkipSpaces(s, p2), <<<<"g","o","o","d">>,
                                                    <<"e","x","p","e","r","i","e","n","c","e","d">>,
                                                    <<"c","o","m","f","o","r","t","a","b","l","e">>>>)
        p4 == IF p3 = 0 THEN 0
              ELSE MatchAlt(s, SkipSpaces(s, p3), <<<<"w","i","t","h">>, <<"a","t">>>>)
        p5 == IF p4 = 0 THEN 0 ELSE SkipSpaces(s, p4)
        run == IF p5 = 0 THEN {}
               ELSE {e \in p5..Len(s) : \A i \in p5..e : s[i] \in SkillChars}
    IN IF p4 # 0 /\ p5 > p4 /\ Cardinality(run) >= 2
       THEN [from |-> p5, to |-> p5 + Cardinality(run) - 1]
       ELSE [from |-> 0, to |-> 0]

Stopwords ==
    { <<"t","h","e">>, <<"a">>, <<"a","n">>, <<"a","n","d">>, <<"o","r">>, <<"t","o">>,
      <<"o","f">>, <<"i","n">>, <<"o","n">>, <<"f","o","r">>, <<"w","i","t","h">>,
      <<"a","t">>, <<"b","y">>, <<"f","r","o","m">>, <<"a","b","o","u","t">>, <<"a","s">>,
      <<"i","n","t","o">>, <<"l","i","k","e">>, <<"t","h","r","o","u","g","h">>,
      <<"a","f","t","e","r">>, <<"o","v","e","r">>, <<"b","e","t","w","e","e","n">>,
      <<"o","u","t">>, <<"a","g","a","i","n","s","t">>, <<"d","u","r","i","n","g">>,
      <<"w","i","t","h","o","u","t">>, <<"b","e","f","o","r","e">>, <<"u","n","d","e","r">>,
      <<"a","r","o","u","n","d">>, <<"a","m","o","n","g">>, <<"w","h","a","t">>,
      <<"w","h","i","c","h">>, <<"w","h","o">>, <<"w","h","o","m">>, <<"t","h","i","s">>,
      <<"t","h","a","t">>, <<"t","h","e","s","e">>, <<"t","h","o","s","e">>, <<"i","s">>,
      <<"a","r","e">>, <<"w","a","s">>, <<"w","e","r","e">>, <<"b","e">>,
      <<"b","e","e","n">>, <<"b","e","i","n","g">>, <<"h","a","v","e">>, <<"h","a","s">>,
      <<"h","a","d">>, <<"d","o">>, <<"d","o","e","s">>, <<"d","i","d">>,
      <<"w","i","l","l">>, <<"w","o","u","l","d">>, <<"s","h","a","l","l">>,
      <<"s","h","o","u","l","d">>, <<"c","a","n">>, <<"c","o","u","l","d">>, <<"m","a","y">>,
      <<"m","i","g","h","t">>, <<"m","u","s","t">>, <<"s","o">>, <<"j","u","s","t">>,
      <<"r","e","a","l","l","y">>, <<"v","e","r","y">>, <<"y","o","u">>, <<"i">>,
      <<"i","m">>, <<"i","'","m">>, <<"w","e">>, <<"t","h","e","y">>, <<"h","e">>,
      <<"s","h","e">>, <<"i","t">>, <<"m","y">>, <<"o","u","r">>, <<"y","o","u","r">>,
      <<"t","h","e","i","r">>, <<"m","e">>, <<"u","s">>, <<"t","h","e","m">> }
\* Lines 235-243: the skill of the lower-cased capture, <<>> when it is
\* dropped.  The capture holds skill characters only, so the first replace()
\* changes nothing.
SkillOf(raw) ==
    LET tokens == SelectSeq(SplitOn(raw, " "),
                            LAMBDA t : t # <<>> /\ t \notin Stopwords)
        skill == JoinWith(tokens, " ")
    IN IF Len(tokens) \in 1..3 /\ Len(skill) \in 2..30 THEN skill ELSE <<>>

\* The while loop of lines 234-247 on one line, from position p: the skills it
\* counts, in order; exec() goes on after the end of each match.
RECURSIVE LineSkills(_, _)
LineSkills(s, p) ==
    LET starts == {q \in p..Len(s) : SkillMatchAt(s, q).to # 0}
    IN IF starts = {} THEN <<>>
       ELSE Bind(SkillMatchAt(s, CHOOSE q \in starts : \A q2 \in starts : q <= q2),
                 LAMBDA m :
                    Bind(SkillOf(ToLowerCase(SubSeq(s, m.from, m.to))),
                         LAMBDA skill : IF skill # <<>> THEN <<skill>> ELSE <<>>)
                    \o LineSkills(s, m.to + 1))

\* line.split(":")[0].trim() || "Unknown"
SpeakerOf(line) ==
    Bind(SplitOn(line, ":")[1],
         LAMBDA first : IF Trim(first) = <<>> THEN <<"U","n","k","n","o","w","n">> ELSE Trim(first))

\* Every (speaker, skill) the loop of lines 231-248 counts, in order.
RECURSIVE Mentions(_)
Mentions(lines) ==
    IF lines = <<>> THEN <<>>
    ELSE Bind(LineSkills(Head(lines), 1),
              LAMBDA found :
                 [i \in 1..Len(found) |->
                     [user |-> SpeakerOf(Head(lines)), skill |-> found[i]]])
         \o Mentions(Tail(lines))

\* The entries of users in the order Object.entries walks them (lines 263-264):
\* users by first mention, the skills of a user by first mention; each with the
\* confidence its mentions ms added up to (line 246).
TextExpertise(ms) ==
    LET firsts == SelectSeq([i \in 1..Len(ms) |-> [at |-> i, m |-> ms[i]]],
                            LAMBDA x : \A j \in 1..(x.at - 1) : ms[j] # x.m)
        firstOfUser(u) == CHOOSE i \in 1..Len(ms) :
                              ms[i].user = u /\ \A j \in 1..(i - 1) : ms[j].user # u
        n == Len(firsts)
        \* rank of an entry: its user's first mention, then its own
        before(x, y) == \/ firstOfUser(x.m.user) < firstOfUser(y.m.user)
                        \/ firstOfUser(x.m.user) = firstOfUser(y.m.user) /\ x.at < y.at
        place(x) == 1 + Cardinality({k \in 1..n : before(firsts[k], x)})
    IN [r \in 1..n |->
           LET x == firsts[CHOOSE k \in 1..n : place(firsts[k]) = r]
           IN [user |-> x.m.user, skill |-> x.m.skill,
               confidence |->
                   MentionConfidence(Cardinality({j \in 1..Len(ms) : ms[j] = x.m}))]]

\* The key of roleMap (lines 251-262) a skill spells, "" when none.
RoleKey(skill) ==
    CASE skill = <<"r","e","a","c","t">> -> "react"
      [] skill = <<"r","e","a","c","t"," ","n","a","t","i","v","e">> -> "react native"
      [] skill = <<"n","o","d","e">> -> "node"
      [] skill = <<"n","o","d","e",".","j","s">> -> "node.js"
      [] skill = <<"b","a","c","k","e","n","d">> -> "backend"
      [] skill = <<"d","a","t","a","b","a","s","e">> -> "database"
      [] skill = <<"s","q","l">> -> "sql"
      [] skill = <<"d","e","v","o","p","s">> -> "devops"
      [] skill = <<"t","e","s","t","i","n","g">> -> "testing"
      [] skill = <<"p","y","t","h","o","n">> -> "python"
      [] skill = <<"a","r","c","h","i","t","e","c","t","u","r","e">> -> "architecture"
      [] skill = <<"s","o","f","t","w","a","r","e"," ","d","e","v","e","l","o","p","m","e","n","t">> -> "software development"
      [] skill = <<"b","e","s","t"," ","p","r","a","c","t","i","c","e","s">> -> "best practices"
      [] OTHER -> ""

\* Lines 263-268: the roles proposed for the entries of users.
TextRoles(users) ==
    RolesFrom([i \in 1..Len(users) |->
                  [users[i] EXCEPT !.skill = RoleKey(users[i].skill)]],
              FALSE, TRUE)

\* The lines transcripts are made of.
TextLines ==
    << <<"A","l","i","c","e",":"," ","I","'","m"," ","g","o","o","d"," ","a","t"," ","R","e","a","c","t">>,
       <<"A","l","i","c","e",":"," ","I"," ","a","m"," ","g","o","o","d"," ","w","i","t","h"," ","r","e","a","c","t">>,
       <<"A","l","i","c","e",":"," ","I","'","m"," ","g","o","o","d"," ","a","t"," ","R","e","a","c","t",".">>,
       <<"B","o","b",":"," ","g","r","e","a","t",","," ","i","t"," ","w","o","r","k","s">>,
       <<"B","o","b",":"," ","b","a","d"," ","p","r","o","b","l","e","m">>,
       <<"B","o","b",":"," ","I","'","m"," ","e","x","p","e","r","i","e","n","c","e","d"," ","w","i","t","h"," ","S","Q","L">> >>
TextTranscripts ==
    UNION {[1..n -> {TextLines[i] : i \in 1..Len(TextLines)}] : n \in 1..MaxLines}
NoTextInsights == [score |-> Zero, expertise |-> <<>>, roles |-> <<>>]

InitText ==
    /\ hText \in TextTranscripts
    /\ hDone = FALSE
    /\ hOut = NoTextInsights

\* generateInsights reaches its fallback (no HF key, no Groq client), lines
\* 212-269, on the transcript's lines joined by line breaks; text.split(/\n+/)
\* gives the lines back (an empty piece holds no skill).
TextFallback ==
    /\ ~hDone
    /\ hDone' = TRUE
    /\ \E text \in {JoinWith(hText, "\n")} :
       \E lower \in {ToLowerCase(text)}, lines \in {SplitOn(text, "\n")} :
       \E pos \in {CountKeywords(lower, PosWords)},
          neg \in {CountKeywords(lower, NegWords)},
          users \in {Bind(Mentions(lines), LAMBDA ms : TextExpertise(ms))} :
            hOut' = [score |-> HeuristicScore(pos, neg),
                     expertise |-> users,
                     roles |-> TextRoles(users)]
    /\ UNCHANGED hText

-----------------------------------------------------------------------------
\* The speech output mode of a call session, as the specification states it
\* (sections 4 and 7: speech pipeline state, sequencing step 3, mode fallback
\* policy); the client code that probes the neural endpoint is not among the
\* sources.
SpeechModes == {"unset", "neural", "browser"}
\* What the neural endpoint answers now: usable audio, a failure, quota exceeded.
EndpointStates == {"up", "down", "quota"}

\* A slip: a usable answer of the endpoint takes the session to neural mode
\* whatever mode it is in.
ReprobedMode(mode, usable) ==
    IF usable THEN "neural" ELSE IF mode = "unset" THEN "browser" ELSE mode
\* Sequencing step 3: playback goes by the locked mode; while the mode is unset
\* the neural endpoint is probed once: usable audio locks neural, anything else
\* locks browser.
LockedMode(mode, usable) ==
    IF mode = "unset" THEN (IF usable THEN "neural" ELSE "browser") ELSE mode

\* How a segment comes out: the browser voice in browser mode; in neural mode
\* the neural voice, or nothing when the request fails (the phrase is skipped,
\* the browser voice is not fallen back to).
VoicedBy(mode, usable) ==
    IF mode = "browser" THEN "browser" ELSE IF usable THEN "neural" ELSE "skipped"

InitSpeech ==
    /\ speechMode = "unset"
    /\ endpoint \in EndpointStates
    /\ voiced = <<>>
    /\ quotaNotice = FALSE

\* The hosted endpoint starts or stops answering with audio.
EndpointChanges ==
    /\ endpoint' \in EndpointStates \ {endpoint}
    /\ UNCHANGED <<speechMode, voiced, quotaNotice>>

\* A segment of a response is spoken.
SpeakSegment ==
    /\ Len(voiced) < MaxVoiced
    /\ speechMode' = LockedMode(speechMode, endpoint = "up")
    /\ voiced' = Append(voiced, [by |-> VoicedBy(speechMode', endpoint = "up"),
                                 endpoint |-> endpoint])
    /\ quotaNotice' = (quotaNotice \/ (speechMode # "browser" /\ endpoint = "quota"))
    /\ UNCHANGED endpoint

-----------------------------------------------------------------------------
\* The persistence of a plan, one INSERT at a time (POST of
\* src/app/api/subtasks/route.ts, lines 285-355).  Handlers of different
\* requests interleave at their awaits.
Savers == 1..MaxSavers
SaverMeeting(h) == IF h = 1 THEN "m1" ELSE "m3"
\* projectPlanData as lines 256-283 leave it
PersistPlans ==
    {createFallbackPlan(t) : t \in {TxtHello, TxtAll}}
    \cup {[p EXCEPT !.phases = NormalizePhases(p.phases)] : p \in LLMPlans}
\* nanoid(): the n-th id handler h draws
NanoId(h, n) == <<h, n>>
NoId == <<0, 0>>

\* The loops of lines 298, 311 and 328: where the handler stands next.
AtPhase(hs, i) ==
    IF i <= Len(hs.plan.phases)
    THEN [hs EXCEPT !.pc = "phase", !.i = i]
    ELSE [hs EXCEPT !.pc = "done", !.resp = 200]
AtTask(hs, j) ==
    IF j <= Len(hs.plan.phases[hs.i].tasks)
    THEN [hs EXCEPT !.pc = "task", !.j = j]
    ELSE AtPhase(hs, hs.i + 1)
AtSubtask(hs, k) ==
    IF k <= Len(hs.plan.phases[hs.i].tasks[hs.j].subtasks)
    THEN [hs EXCEPT !.pc = "subtask", !.k = k]
    ELSE AtTask(hs, hs.j + 1)
\* An INSERT throws: the catch of lines 349-355 answers 500.
SaveFailed(hs) == [hs EXCEPT !.pc = "done", !.resp = 500]

\* A slip: the task is filed under the name of its phase.
PhaseNameRef(hs) == hs.plan.phases[hs.i].name
\* phase: savedPhase.id, line 317
SavedPhaseRef(hs) == hs.phaseId

InitPersist ==
    /\ savers \in [Savers -> {[pc |-> "plan", plan |-> p, i |-> 0, j |-> 0, k |-> 0,
                               n |-> 0, phaseId |-> NoId, taskId |-> NoId, resp |-> 0] :
                                 p \in PersistPlans}]
    /\ planDocs = {}
    /\ phaseTable = {}
    /\ taskTable = {}
    /\ subtaskTable = {}

\* lines 286-295
SavePlanRow(h) ==
    /\ savers[h].pc = "plan"
    /\ IF PlanRowInsertable(savers[h].plan)
       THEN /\ planDocs' = planDocs \cup {[id |-> NanoId(h, 1), meetingId |-> SaverMeeting(h)]}
            /\ savers' = [savers EXCEPT ![h] = AtPhase([@ EXCEPT !.n = 1], 1)]
       ELSE /\ savers' = [savers EXCEPT ![h] = SaveFailed(@)]
            /\ UNCHANGED planDocs
    /\ UNCHANGED <<phaseTable, taskTable, subtaskTable>>

\* lines 299-308
SavePhaseRow(h) ==
    /\ savers[h].pc = "phase"
    /\ phaseTable' = phaseTable \cup
           {[id |-> NanoId(h, savers[h].n + 1), meetingId |-> SaverMeeting(h),
             name |-> savers[h].plan.phases[savers[h].i].name]}
    /\ savers' = [savers EXCEPT ![h] =
                     AtTask([@ EXCEPT !.n = @ + 1, !.phaseId = NanoId(h, savers[h].n + 1)], 1)]
    /\ UNCHANGED <<planDocs, taskTable, subtaskTable>>

\* lines 312-325; title is NOT NULL
SaveTaskRow(h) ==
    /\ savers[h].pc = "task"
    /\ IF savers[h].plan.phases[savers[h].i].tasks[savers[h].j].title # ""
       THEN /\ taskTable' = taskTable \cup
                   {[id |-> NanoId(h, savers[h].n + 1), meetingId |-> SaverMeeting(h),
                     phase |-> SavedPhaseRef(savers[h])]}
            /\ savers' = [savers EXCEPT ![h] =
                   AtSubtask([@ EXCEPT !.n = @ + 1, !.taskId = NanoId(h, savers[h].n + 1)], 1)]
       ELSE /\ savers' = [savers EXCEPT ![h] = SaveFailed(@)]
            /\ UNCHANGED taskTable
    /\ UNCHANGED <<planDocs, phaseTable, subtaskTable>>

\* lines 329-336; title is NOT NULL
SaveSubtaskRow(h) ==
    /\ savers[h].pc = "subtask"
    /\ IF savers[h].plan.phases[savers[h].i].tasks[savers[h].j].subtasks[savers[h].k] # ""
       THEN /\ subtaskTable' = subtaskTable \cup
                   {[id |-> NanoId(h, savers[h].n + 1), taskId |-> savers[h].taskId]}
            /\ savers' = [savers EXCEPT ![h] = AtSubtask([@ EXCEPT !.n = @ + 1], savers[h].k + 1)]
       ELSE /\ savers' = [savers EXCEPT ![h] = SaveFailed(@)]
            /\ UNCHANGED subtaskTable
    /\ UNCHANGED <<planDocs, phaseTable, taskTable>>

-----------------------------------------------------------------------------
\* The two skill -> role lookups of generateInsights (src/unnamed/part_002):
\* the backfill of an LLM answer without role_suggestions (lines 179-204) and
\* the heuristic fallback (lines 250-268), asked about one skill.
UpperChar(c) ==
    IF \E i \in 1..Len(Lower) : Lower[i] = c
    THEN Upper[CHOOSE i \in 1..Len(Lower) : Lower[i] = c]
    ELSE c
SkillWords ==
    { <<"r","e","a","c","t">>,
      <<"r","e","a","c","t"," ","n","a","t","i","v","e">>,
      <<"n","o","d","e">>,
      <<"n","o","d","e",".","j","s">>,
      <<"b","a","c","k","e","n","d">>,
      <<"d","a","t","a","b","a","s","e">>,
      <<"s","q","l">>,
      <<"d","e","v","o","p","s">>,
      <<"t","e","s","t","i","n","g">>,
      <<"p","y","t","h","o","n">>,
      <<"a","r","c","h","i","t","e","c","t","u","r","e">>,
      <<"s","o","f","t","w","a","r","e"," ","d","e","v","e","l","o","p","m","e","n","t">>,
      <<"b","e","s","t"," ","p","r","a","c","t","i","c","e","s">>,
      <<"c","s","s">> }
\* A skill is named in lower case, capitalised, or in capitals.
SkillsSaid ==
    SkillWords
    \cup {[i \in 1..Len(w) |-> IF i = 1 THEN UpperChar(w[i]) ELSE w[i]] : w \in SkillWords}
    \cup {[i \in 1..Len(w) |-> UpperChar(w[i])] : w \in SkillWords}
NotAsked == "not asked"

\* lines 195-203: the model's expertise_detection names the skill as said
BackfillRoleOf(skill) == RoleMapLLM(RoleKey(ToLowerCase(skill)))
\* lines 235-246 and 263-268: the skill as the fallback records it
FallbackRoleOf(skill) == RoleMapHeuristic(RoleKey(SkillOf(ToLowerCase(skill))))

InitRoles ==
    /\ skillSaid \in SkillsSaid
    /\ backfillRole = NotAsked
    /\ fallbackRole = NotAsked

BackfillLookup ==
    /\ backfillRole = NotAsked
    /\ backfillRole' = BackfillRoleOf(skillSaid)
    /\ UNCHANGED <<skillSaid, fallbackRole>>

FallbackLookup ==
    /\ fallbackRole = NotAsked
    /\ fallbackRole' = FallbackRoleOf(skillSaid)
    /\ UNCHANGED <<skillSaid, backfillRole>>

-----------------------------------------------------------------------------
\* The in-memory conversation cache (src/unnamed/part_004): POST stores the
\* state of a meeting's conversation, GET reads it back.
SyncMeetings == {"m1", "m3"}
\* 5 * 60 * 1000 ms (line 74), in minutes
FiveMinutes == 5
Missing == "undefined"
\* the JSON bodies posted: fields may be missing; true and false as "true", "false"
SyncBodies ==
    { [transcript |-> Missing, agentResponse |-> Missing, isAgentSpeaking |-> Missing],
      [transcript |-> "hello", agentResponse |-> Missing, isAgentSpeaking |-> "true"],
      [transcript |-> Missing, agentResponse |-> "ok", isAgentSpeaking |-> "false"] }
NoEntry == [set |-> FALSE]
NoPost == [at |-> 0 - 1]
\* x || d
OrElse(x, d) == IF x \in {Missing, "", "false"} THEN d ELSE x
\* the values an entry of lines 26-31 holds for a body
Stored(body) ==
    [transcript |-> OrElse(body.transcript, ""),
     agentResponse |-> OrElse(body.agentResponse, ""),
     isAgentSpeaking |-> OrElse(body.isAgentSpeaking, "false")]
\* lines 66-70 and 78-82
EmptyConversation == [transcript |-> "", agentResponse |-> "", isAgentSpeaking |-> "false"]

\* An entry that is never taken for old.
NeverStale(entry, now) == FALSE
\* lines 74-75
Stale(entry, now) == entry.lastUpdated < now - FiveMinutes

InitSync ==
    /\ conversationStore = [m \in SyncMeetings |-> NoEntry]
    /\ syncNow = 0
    /\ syncResp = [kind |-> "none"]
    /\ syncSeq = 0
    /\ lastPosted = [m \in SyncMeetings |-> NoPost]

\* a minute passes
SyncTick ==
    /\ syncNow < MaxSyncNow
    /\ syncNow' = syncNow + 1
    /\ UNCHANGED <<conversationStore, syncResp, syncSeq, lastPosted>>

\* POST, lines 14-48
SyncPOST ==
    \E meetingId \in SyncMeetings \cup {Missing}, body \in SyncBodies :
        /\ syncSeq' = 1 - syncSeq
        /\ IF meetingId = Missing
           THEN /\ syncResp' = [kind |-> "post", meetingId |-> meetingId, status |-> 400]
                /\ UNCHANGED <<conversationStore, lastPosted>>
           ELSE /\ conversationStore' =
                      [conversationStore EXCEPT ![meetingId] =
                          [set |-> TRUE, data |-> Stored(body), lastUpdated |-> syncNow]]
                /\ lastPosted' = [lastPosted EXCEPT ![meetingId] = [at |-> syncNow, body |-> body]]
                /\ syncResp' = [kind |-> "post", meetingId |-> meetingId, status |-> 200]
        /\ UNCHANGED syncNow

\* GET, lines 50-97
SyncGET ==
    \E meetingId \in SyncMeetings \cup {Missing} :
        /\ syncSeq' = 1 - syncSeq
        /\ IF meetingId = Missing
           THEN /\ syncResp' = [kind |-> "get", meetingId |-> meetingId, status |-> 400]
                /\ UNCHANGED conversationStore
           ELSE IF ~conversationStore[meetingId].set
           THEN /\ syncResp' = [kind |-> "get", meetingId |-> meetingId, status |-> 200,
                                body |-> EmptyConversation]
                /\ UNCHANGED conversationStore
           ELSE IF Stale(conversationStore[meetingId], syncNow)
           THEN /\ conversationStore' = [conversationStore EXCEPT ![meetingId] = NoEntry]
                /\ syncResp' = [kind |-> "get", meetingId |-> meetingId, status |-> 200,
                                body |-> EmptyConversation]
           ELSE /\ syncResp' = [kind |-> "get", meetingId |-> meetingId, status |-> 200,
                                body |-> conversationStore[meetingId].data]
                /\ UNCHANGED conversationStore
        /\ UNCHANGED <<syncNow, lastPosted>>

-----------------------------------------------------------------------------
\* The meetings router (src/modules/meetings/server/procedures.ts) on one
\* meeting id: create, update, remove, getOne, and the participants' join and
\* leave.  A procedure is one step, but join, which reads and then writes.
\* Of a participant's row the model keeps the id, the user and leftAt; the
\* role, which no procedure reads but join to write it back, is left out.
AccessUsers == {"u1", "u2"}
\* the enum meeting_status (src/db/schema.ts, lines 65-71)
MeetingStatuses == {"upcoming", "active", "completed", "processing", "cancelled"}
JoinCallIds == 1..MaxJoinCalls
Unborn == [state |-> "unborn"]
Removed == [state |-> "removed"]
IdleJoin == [pc |-> "idle"]
OtherAnswer == [op |-> "other"]
RowsOf(userId) == {p \in meetingParticipants : p.userId = userId}
\* nanoid(): an id no row has
FreshRowId(userId) == <<userId, Cardinality(RowsOf(userId)) + 1>>

\* Open to the active meeting only.
IsActive(status) == status = "active"
\* isOpen, line 212
IsOpen(status) == status \in {"active", "upcoming"}

InitAccess ==
    /\ meeting = Unborn
    /\ meetingParticipants = {}
    /\ joinCalls = [c \in JoinCallIds |-> IdleJoin]
    /\ meetingResp = OtherAnswer

\* create, lines 71-154: the id is a fresh nanoid
MeetingCreate(caller) ==
    /\ meeting = Unborn
    /\ meeting' = [state |-> "row", userId |-> caller, status |-> "active"]
    /\ meetingResp' = OtherAnswer
    /\ UNCHANGED <<meetingParticipants, joinCalls>>

\* the status moves: update by the owner (lines 50-70), or the call's webhook
MeetingStatusChange(status) ==
    /\ meeting.state = "row"
    /\ meeting.status # status
    /\ meeting' = [meeting EXCEPT !.status = status]
    /\ meetingResp' = OtherAnswer
    /\ UNCHANGED <<meetingParticipants, joinCalls>>

\* remove, lines 30-49; the participants' rows go with the meeting (cascade)
MeetingRemove(caller) ==
    /\ meeting.state = "row"
    /\ meeting.userId = caller
    /\ meeting' = Removed
    /\ meetingParticipants' = {}
    /\ meetingResp' = OtherAnswer
    /\ UNCHANGED joinCalls

\* getOne, lines 155-260
GetOne(caller) ==
    /\ meetingResp' =
          IF meeting.state # "row"
          THEN [op |-> "getOne", caller |-> caller, code |-> "NOT_FOUND"]
          ELSE LET isOwner == meeting.userId = caller
                   isOpen == IsOpen(meeting.status)
                   isParticipant == RowsOf(caller) # {}
               IN IF isOwner \/ isOpen \/ isParticipant
                  THEN [op |-> "getOne", caller |-> caller, code |-> "OK", data |-> meeting]
                  ELSE [op |-> "getOne", caller |-> caller, code |-> "FORBIDDEN"]
    /\ UNCHANGED <<meeting, meetingParticipants, joinCalls>>

\* join, lines 370-376: the select
JoinSelect(c, caller) ==
    /\ joinCalls[c].pc = "idle"
    /\ joinCalls' = [joinCalls EXCEPT ![c] =
                        [pc |-> "write", userId |-> caller, existing |-> RowsOf(caller) # {}]]
    /\ meetingResp' = OtherAnswer
    /\ UNCHANGED <<meeting, meetingParticipants>>

\* join, lines 378-391: the update of the row found (leftAt: null), or the
\* insert, which the foreign key refuses when the meeting is gone
JoinWrite(c) ==
    /\ joinCalls[c].pc = "write"
    /\ LET call == joinCalls[c]
       IN IF call.existing
          THEN meetingParticipants' =
                  {IF p.userId = call.userId THEN [p EXCEPT !.left = FALSE] ELSE p :
                      p \in meetingParticipants}
          ELSE IF meeting.state = "row"
          THEN meetingParticipants' = meetingParticipants \cup
                  {[id |-> FreshRowId(call.userId), userId |-> call.userId, left |-> FALSE]}
          ELSE UNCHANGED meetingParticipants
    /\ joinCalls' = [joinCalls EXCEPT ![c] = IdleJoin]
    /\ meetingResp' = OtherAnswer
    /\ UNCHANGED meeting

\* leave, lines 395-405
Leave(caller) ==
    /\ \E p \in RowsOf(caller) : ~p.left
    /\ meetingParticipants' =
          {IF p.userId = caller THEN [p EXCEPT !.left = TRUE] ELSE p : p \in meetingParticipants}
    /\ meetingResp' = OtherAnswer
    /\ UNCHANGED <<meeting, joinCalls>>

-----------------------------------------------------------------------------
\* splitTextIntoChunks (call-active.tsx, lines 704-732; the component's
\* earlier version has the same function at lines 212-241) on texts of
\* letters, full stops and spaces.
SplitAlphabet == {"a", ".", " "}
SplitTexts == UNION {[1..n -> SplitAlphabet] : n \in 0..MaxTextLen}
SplitMaxLens == {2, 3}

\* text.replace(/\s+/g, ' '): a run of white space becomes one space
CollapseSpaces(s) ==
    LET keep == {i \in 1..Len(s) : ~(IsSpace(s[i]) /\ i > 1 /\ IsSpace(s[i - 1]))}
        nth(k) == CHOOSE c \in keep : Cardinality({d \in keep : d < c}) = k - 1
    IN [k \in 1..Cardinality(keep) |-> IF IsSpace(s[nth(k)]) THEN " " ELSE s[nth(k)]]
\* s.split(/(?<=[.!?])\s+/) of a text whose spaces are single
SplitSentences(s) ==
    LET cuts == {i \in 2..Len(s) : s[i] = " " /\ s[i - 1] \in {".", "!", "?"}}
        cut(k) == IF k = 0 THEN 0
                  ELSE IF k > Cardinality(cuts) THEN Len(s) + 1
                  ELSE CHOOSE c \in cuts : Cardinality({d \in cuts : d < c}) = k - 1
    IN [k \in 1..(Cardinality(cuts) + 1) |-> SubSeq(s, cut(k - 1) + 1, cut(k) - 1)]

\* The for loop of lines 711-729 over the sentences left, with chunks and
\* current as they stand.  In the hard split (lines 719-726) the pieces of
\* maxLen characters are pushed and a shorter last piece becomes current; when
\* there is none, current keeps the value it had.
RECURSIVE ChunkLoop(_, _, _, _)
ChunkLoop(sentences, chunks, current, maxLen) ==
    IF sentences = <<>>
    THEN IF current # <<>> THEN Append(chunks, current) ELSE chunks
    ELSE LET s == Head(sentences)
             pushed == IF current # <<>> THEN Append(chunks, current) ELSE chunks
             full == Len(s) \div maxLen
             pieces == [k \in 1..full |-> SubSeq(s, (k - 1) * maxLen + 1, k * maxLen)]
             last == SubSeq(s, full * maxLen + 1, Len(s))
         IN IF Len(Trim(current \o <<" ">> \o s)) <= maxLen
            THEN ChunkLoop(Tail(sentences), chunks,
                           (IF current # <<>> THEN current \o <<" ">> ELSE <<>>) \o s, maxLen)
            ELSE IF Len(s) <= maxLen
            THEN ChunkLoop(Tail(sentences), pushed, s, maxLen)
            ELSE ChunkLoop(Tail(sentences), pushed \o pieces,
                           IF last # <<>> THEN last ELSE current, maxLen)

splitTextIntoChunks(text, maxLen) ==
    ChunkLoop(SplitSentences(Trim(CollapseSpaces(text))), <<>>, <<>>, maxLen)

InitSplit ==
    /\ splitText \in SplitTexts
    /\ splitMaxLen \in SplitMaxLens
    /\ splitDone = FALSE
    /\ splitChunks = <<>>

\* const chunks = splitTextIntoChunks(text), line 766
SplitText ==
    /\ ~splitDone
    /\ splitDone' = TRUE
    /\ splitChunks' = splitTextIntoChunks(splitText, splitMaxLen)
    /\ UNCHANGED <<splitText, splitMaxLen>>

-----------------------------------------------------------------------------
\* POST and PUT of src/app/api/tasks/route.ts for the tasks of one meeting:
\* the phase asked for is checked against the meeting's phases, and a default
\* phase is looked up, or created, when it is not one of them.  Every await
\* is a step.
TaskMeeting == "m1"
TaskCallIds == 1..MaxTaskCalls
DefaultPhaseName == "Project Planning & Setup"
NoPhase == "undefined"
\* a phase of another meeting
ForeignPhase == [id |-> "pOther", meetingId |-> "m3", name |-> "Design", order |-> 1]
IdleTaskCall == [pc |-> "idle"]
MeetingPhases == {p \in taskPhases : p.meetingId = TaskMeeting}
FreshPhaseId == <<"phase", Cardinality(taskPhases)>>
FreshTaskId == <<"task", Cardinality(taskRows) + 1>>
PostsInFlight == {c \in TaskCallIds : taskCalls[c].pc # "idle" /\ taskCalls[c].kind = "POST"}

InitTasks ==
    /\ taskPhases = {ForeignPhase}
    /\ taskRows = {}
    /\ taskCalls = [c \in TaskCallIds |-> IdleTaskCall]

\* POST, lines 78-98: a request with title, phase and meetingId
TaskPOST(c, phase) ==
    /\ taskCalls[c].pc = "idle"
    /\ Cardinality(taskRows) + Cardinality(PostsInFlight) < MaxTasks
    /\ taskCalls' = [taskCalls EXCEPT ![c] =
                        [pc |-> "check", kind |-> "POST", candidate |-> phase,
                         task |-> NoPhase, phaseId |-> NoPhase]]
    /\ UNCHANGED <<taskPhases, taskRows>>

\* PUT, lines 182-210 and 286: requestedPhaseId ?? currentPhaseId
TaskPUT(c, t, phase) ==
    /\ taskCalls[c].pc = "idle"
    /\ t \in taskRows
    /\ taskCalls' = [taskCalls EXCEPT ![c] =
                        [pc |-> "check", kind |-> "PUT",
                         candidate |-> IF phase # NoPhase THEN phase ELSE t.phase,
                         task |-> t.id, phaseId |-> NoPhase]]
    /\ UNCHANGED <<taskPhases, taskRows>>

\* resolvePhaseId, lines 130-137; ensureValidPhase, lines 273-281
CheckPhase(c) ==
    /\ taskCalls[c].pc = "check"
    /\ taskCalls' = [taskCalls EXCEPT ![c] =
          IF \E p \in MeetingPhases : p.id = taskCalls[c].candidate
          THEN [@ EXCEPT !.pc = "write", !.phaseId = taskCalls[c].candidate]
          ELSE [@ EXCEPT !.pc = "default"]]
    /\ UNCHANGED <<taskPhases, taskRows>>

\* getOrCreateDefaultPhase, lines 112-118 and 256-262: the select
SelectDefaultPhase(c) ==
    /\ taskCalls[c].pc = "default"
    /\ IF MeetingPhases = {}
       THEN taskCalls' = [taskCalls EXCEPT ![c].pc = "insert"]
       ELSE \E p \in MeetingPhases :
               /\ \A o \in MeetingPhases : p.order <= o.order
               /\ taskCalls' = [taskCalls EXCEPT ![c] =
                                   [@ EXCEPT !.pc = "write", !.phaseId = p.id]]
    /\ UNCHANGED <<taskPhases, taskRows>>

\* getOrCreateDefaultPhase, lines 120-126 and 263-269: the insert
InsertDefaultPhase(c) ==
    /\ taskCalls[c].pc = "insert"
    /\ taskPhases' = taskPhases \cup
           {[id |-> FreshPhaseId, meetingId |-> TaskMeeting, name |-> DefaultPhaseName,
             order |-> 1]}
    /\ taskCalls' = [taskCalls EXCEPT ![c] = [@ EXCEPT !.pc = "write", !.phaseId = FreshPhaseId]]
    /\ UNCHANGED taskRows

\* the insert of lines 145-161, the update of lines 290-297
WriteTask(c) ==
    /\ taskCalls[c].pc = "write"
    /\ taskRows' =
          IF taskCalls[c].kind = "POST"
          THEN taskRows \cup {[id |-> FreshTaskId, meetingId |-> TaskMeeting,
                               phase |-> taskCalls[c].phaseId]}
          ELSE {IF t.id = taskCalls[c].task THEN [t EXCEPT !.phase = taskCalls[c].phaseId]
                ELSE t : t \in taskRows}
    /\ taskCalls' = [taskCalls EXCEPT ![c] = IdleTaskCall]
    /\ UNCHANGED taskPhases

-----------------------------------------------------------------------------
\* The specifications: each leaves the other components as they start.
IdleIns ==
    /\ hfApiKey = FALSE /\ groq = FALSE
    /\ meetings = [m \in MeetingIds |-> [status |-> "active", summary |-> "null", endedAt |-> FALSE]]
    /\ meetingsBefore = meetings
    /\ req = NoRequest /\ pc = "idle" /\ summaryText = "none" /\ insights = NoInsights
    /\ resp = 0 /\ netCalls = 0 /\ dbWrites = 0

exceptIns == <<callVars, planVars, chunkVars, textVars, speechVars, persistVars, roleVars, syncVars, accessVars, splitVars, taskVars>>
exceptCall == <<insVars, planVars, chunkVars, textVars, speechVars, persistVars, roleVars, syncVars, accessVars, splitVars, taskVars>>
exceptPlan == <<insVars, callVars, chunkVars, textVars, speechVars, persistVars, roleVars, syncVars, accessVars, splitVars, taskVars>>
exceptChunks == <<insVars, callVars, planVars, textVars, speechVars, persistVars, roleVars, syncVars, accessVars, splitVars, taskVars>>
exceptText == <<insVars, callVars, planVars, chunkVars, speechVars, persistVars, roleVars, syncVars, accessVars, splitVars, taskVars>>
exceptSpeech == <<insVars, callVars, planVars, chunkVars, textVars, persistVars, roleVars, syncVars, accessVars, splitVars, taskVars>>
exceptPersist == <<insVars, callVars, planVars, chunkVars, textVars, speechVars, roleVars, syncVars, accessVars, splitVars, taskVars>>
exceptRoles == <<insVars, callVars, planVars, chunkVars, textVars, speechVars, persistVars, syncVars, accessVars, splitVars, taskVars>>
exceptSync == <<insVars, callVars, planVars, chunkVars, textVars, speechVars, persistVars, roleVars, accessVars, splitVars, taskVars>>
exceptAccess == <<insVars, callVars, planVars, chunkVars, textVars, speechVars, persistVars, roleVars, syncVars, splitVars, taskVars>>
exceptSplit == <<insVars, callVars, planVars, chunkVars, textVars, speechVars, persistVars, roleVars, syncVars, accessVars, taskVars>>
exceptTasks == <<insVars, callVars, planVars, chunkVars, textVars, speechVars, persistVars, roleVars, syncVars, accessVars, splitVars>>

vars == <<insVars, callVars, planVars, chunkVars, textVars, speechVars, persistVars, roleVars, syncVars, accessVars, splitVars, taskVars>>

IdlePersist ==
    /\ savers = [h \in Savers |-> [pc |-> "done", plan |-> NoPlan, i |-> 0, j |-> 0, k |-> 0,
                                   n |-> 0, phaseId |-> NoId, taskId |-> NoId, resp |-> 0]]
    /\ planDocs = {} /\ phaseTable = {} /\ taskTable = {} /\ subtaskTable = {}
IdleRoles == skillSaid = <<>> /\ backfillRole = NotAsked /\ fallbackRole = NotAsked
IdleSync ==
    /\ conversationStore = [m \in SyncMeetings |-> NoEntry] /\ syncNow = 0
    /\ syncResp = [kind |-> "none"] /\ syncSeq = 0
    /\ lastPosted = [m \in SyncMeetings |-> NoPost]
IdleAccess ==
    /\ meeting = Unborn /\ meetingParticipants = {}
    /\ joinCalls = [c \in JoinCallIds |-> IdleJoin] /\ meetingResp = OtherAnswer
IdleSplit == splitText = <<>> /\ splitMaxLen = 2 /\ splitDone = FALSE /\ splitChunks = <<>>
IdleTasks ==
    /\ taskPhases = {ForeignPhase} /\ taskRows = {}
    /\ taskCalls = [c \in TaskCallIds |-> IdleTaskCall]
IdleSpeech ==
    speechMode = "unset" /\ endpoint = "down" /\ voiced = <<>> /\ quotaNotice = FALSE
IdleText == hText = <<>> /\ hDone = TRUE /\ hOut = NoTextInsights

\* The components of the later sections, as they start.
IdleLater ==
    IdlePersist /\ IdleRoles /\ IdleSync /\ IdleAccess /\ IdleSplit /\ IdleTasks

Init == InitIns /\ InitCall /\ InitPlan /\ InitChunks /\ IdleText /\ IdleSpeech /\ IdleLater
Next ==
    \/ POSTBegin /\ UNCHANGED exceptIns
    \/ POSTSummary /\ UNCHANGED exceptIns
    \/ POSTInsights /\ UNCHANGED exceptIns
    \/ POSTSave /\ UNCHANGED exceptIns
Spec == Init /\ [][Next]_vars

InitCallSession == InitCall /\ IdleIns /\ InitPlan /\ InitChunks /\ IdleText /\ IdleSpeech /\ IdleLater
NextCallSession ==
    \/ ToggleMic /\ UNCHANGED exceptCall
    \/ CheckMicState /\ UNCHANGED exceptCall
    \/ (\E q \in Questions : HandleUserMessage(q)) /\ UNCHANGED exceptCall
    \/ RecognitionEnds /\ UNCHANGED exceptCall
    \/ HandleManualTrigger /\ UNCHANGED exceptCall
    \/ (\E i \in 1..Len(fetches) : FetchReturns(i)) /\ UNCHANGED exceptCall
    \/ (\E t \in timers : TimerFires(t)) /\ UNCHANGED exceptCall
    \/ UtteranceEnds /\ UNCHANGED exceptCall
    \/ (\E u \in synthEvents : UtteranceEvent(u)) /\ UNCHANGED exceptCall
    \/ HandleVoiceChange /\ UNCHANGED exceptCall
    \/ HandleTestVoice /\ UNCHANGED exceptCall
    \/ HandleToggleAIMute /\ UNCHANGED exceptCall
    \/ HandleToggleAIListening /\ UNCHANGED exceptCall
    \/ StopAudioPipelines /\ UNCHANGED exceptCall
SpecCall == InitCallSession /\ [][NextCallSession]_vars

InitPlanRoute == InitPlan /\ IdleIns /\ InitCall /\ InitChunks /\ IdleText /\ IdleSpeech /\ IdleLater
NextPlanRoute ==
    \/ PlanPOSTBegin /\ UNCHANGED exceptPlan
    \/ PlanPOSTPrompt /\ UNCHANGED exceptPlan
    \/ PlanPOSTSave /\ UNCHANGED exceptPlan
    \/ PlanGET /\ UNCHANGED exceptPlan
SpecPlan == InitPlanRoute /\ [][NextPlanRoute]_vars

InitChunkStore == InitChunks /\ IdleIns /\ InitCall /\ InitPlan /\ IdleText /\ IdleSpeech /\ IdleLater
NextChunkStore ==
    \/ ClockTicks /\ UNCHANGED exceptChunks
    \/ ChunkPOST /\ UNCHANGED exceptChunks
    \/ ChunkGET /\ UNCHANGED exceptChunks
SpecChunks == InitChunkStore /\ [][NextChunkStore]_vars

InitTextFallback == InitText /\ IdleIns /\ InitCall /\ InitPlan /\ InitChunks /\ IdleSpeech /\ IdleLater
NextTextFallback == TextFallback /\ UNCHANGED exceptText
SpecText == InitTextFallback /\ [][NextTextFallback]_vars

InitSpeechMode ==
    InitSpeech /\ IdleIns /\ InitCall /\ InitPlan /\ InitChunks /\ IdleText /\ IdleLater
NextSpeechMode ==
    \/ EndpointChanges /\ UNCHANGED exceptSpeech
    \/ SpeakSegment /\ UNCHANGED exceptSpeech
SpecSpeech == InitSpeechMode /\ [][NextSpeechMode]_vars

InitPersistence ==
    InitPersist /\ IdleIns /\ InitCall /\ InitPlan /\ InitChunks /\ IdleText /\ IdleSpeech /\ IdleRoles /\ IdleSync /\ IdleAccess /\ IdleSplit /\ IdleTasks
NextPersistence ==
    \/ (\E h \in Savers : SavePlanRow(h)) /\ UNCHANGED exceptPersist
    \/ (\E h \in Savers : SavePhaseRow(h)) /\ UNCHANGED exceptPersist
    \/ (\E h \in Savers : SaveTaskRow(h)) /\ UNCHANGED exceptPersist
    \/ (\E h \in Savers : SaveSubtaskRow(h)) /\ UNCHANGED exceptPersist
SpecPersist == InitPersistence /\ [][NextPersistence]_vars

InitRoleLookup ==
    InitRoles /\ IdleIns /\ InitCall /\ InitPlan /\ InitChunks /\ IdleText /\ IdleSpeech
    /\ IdlePersist /\ IdleSync /\ IdleAccess /\ IdleSplit /\ IdleTasks
NextRoleLookup ==
    \/ BackfillLookup /\ UNCHANGED exceptRoles
    \/ FallbackLookup /\ UNCHANGED exceptRoles
SpecRoles == InitRoleLookup /\ [][NextRoleLookup]_vars

InitSyncCache ==
    InitSync /\ IdleIns /\ InitCall /\ InitPlan /\ InitChunks /\ IdleText /\ IdleSpeech
    /\ IdlePersist /\ IdleRoles /\ IdleAccess /\ IdleSplit /\ IdleTasks
NextSyncCache ==
    \/ SyncTick /\ UNCHANGED exceptSync
    \/ SyncPOST /\ UNCHANGED exceptSync
    \/ SyncGET /\ UNCHANGED exceptSync
SpecSync == InitSyncCache /\ [][NextSyncCache]_vars

InitMeetingAccess ==
    InitAccess /\ IdleIns /\ InitCall /\ InitPlan /\ InitChunks /\ IdleText /\ IdleSpeech
    /\ IdlePersist /\ IdleRoles /\ IdleSync /\ IdleSplit /\ IdleTasks
NextMeetingAccess ==
    \/ (\E u \in AccessUsers : MeetingCreate(u)) /\ UNCHANGED exceptAccess
    \/ (\E s \in MeetingStatuses : MeetingStatusChange(s)) /\ UNCHANGED exceptAccess
    \/ (\E u \in AccessUsers : MeetingRemove(u)) /\ UNCHANGED exceptAccess
    \/ (\E u \in AccessUsers : GetOne(u)) /\ UNCHANGED exceptAccess
    \/ (\E c \in JoinCallIds, u \in AccessUsers : JoinSelect(c, u)) /\ UNCHANGED exceptAccess
    \/ (\E c \in JoinCallIds : JoinWrite(c)) /\ UNCHANGED exceptAccess
    \/ (\E u \in AccessUsers : Leave(u)) /\ UNCHANGED exceptAccess
SpecAccess == InitMeetingAccess /\ [][NextMeetingAccess]_vars

InitSplitText ==
    InitSplit /\ IdleIns /\ InitCall /\ InitPlan /\ InitChunks /\ IdleText /\ IdleSpeech
    /\ IdlePersist /\ IdleRoles /\ IdleSync /\ IdleAccess /\ IdleTasks
NextSplitText == SplitText /\ UNCHANGED exceptSplit
SpecSplit == InitSplitText /\ [][NextSplitText]_vars

InitTaskRoute ==
    InitTasks /\ IdleIns /\ InitCall /\ InitPlan /\ InitChunks /\ IdleText /\ IdleSpeech
    /\ IdlePersist /\ IdleRoles /\ IdleSync /\ IdleAccess /\ IdleSplit
NextTaskRoute ==
    \/ (\E c \in TaskCallIds, ph \in {"pOther", "pGone"} : TaskPOST(c, ph))
           /\ UNCHANGED exceptTasks
    \/ (\E c \in TaskCallIds, t \in taskRows, ph \in {NoPhase, "pOther"} : TaskPUT(c, t, ph))
           /\ UNCHANGED exceptTasks
    \/ (\E c \in TaskCallIds : CheckPhase(c)) /\ UNCHANGED exceptTasks
    \/ (\E c \in TaskCallIds : SelectDefaultPhase(c)) /\ UNCHANGED exceptTasks
    \/ (\E c \in TaskCallIds : InsertDefaultPhase(c)) /\ UNCHANGED exceptTasks
    \/ (\E c \in TaskCallIds : WriteTask(c)) /\ UNCHANGED exceptTasks
SpecTasks == InitTaskRoute /\ [][NextTaskRoute]_vars

-----------------------------------------------------------------------------
\* Claims about the meeting-completion route, checked under Spec.

InRange(x) == x.k = "num" /\ RLe(<<1, 20>>, x.v) /\ RLe(x.v, <<19, 20>>)

\* C1: every numeric overall_score that generateInsights returns lies in
\* [0.05, 0.95], whichever path (hybrid, LLM only, heuristic) produced it.
C1_ClampingIsTotal ==
    (insights.ret = "value" /\ insights.ins.overall_score.k = "num")
        => InRange(insights.ins.overall_score)

\* C2: when the classifier returned a sentiment and the LLM call succeeded, the
\* merged insights have source "hybrid" and the classifier's clamped score.
C2_HybridWhenBothSucceed ==
    (insights.path = "groq" /\ insights.hf.some)
        => /\ insights.ins.source = "hybrid"
           /\ insights.ins.overall_score = Num(Clamp(insights.hf.score.v))

\* C3: on an empty or whitespace-only transcript generateInsights returns
\* exactly the neutral default, generateSummary returns "No conversation
\* captured.", and no hosted call is issued.
C3_EmptyTranscriptIsNeutral ==
    (pc # "idle" /\ req.conversation.kind \in BlankKinds)
        => /\ netCalls = 0
           /\ summaryText \in {"none", "No conversation captured."}
           /\ insights.ret \in {"none", "value"}
           /\ (insights.ret = "value" =>
                  /\ insights.ins = Base
                  /\ insights.ins.overall_score = Num(Half)
                  /\ insights.ins.expertise_detection = JMap(<<>>)
                  /\ insights.ins.role_suggestions = JList(<<>>))
\* A whitespace-only transcript went through the whole route with both hosted
\* services configured.
C3_Witness ==
    /\ pc = "done" /\ resp = 200
    /\ req.conversation.kind = "spaces"
    /\ hfApiKey /\ groq
    /\ insights.ret = "value" /\ summaryText = "No conversation captured."

\* C4: generateInsights always returns, and what it returns carries a numeric
\* overall_score, an expertise_detection map and a role_suggestions list.
C4_PipelineNeverRaises ==
    insights.ret # "none"
        => /\ insights.ret = "value"
           /\ insights.ins.overall_score.k = "num"
           /\ insights.ins.expertise_detection.k = "map"
           /\ insights.ins.role_suggestions.k = "list"

\* C5: a completion request naming a meeting that does not exist invokes
\* neither generateSummary nor generateInsights and is not answered 200.
C5_UnknownMeetingIsRejected ==
    (req.meetingId # "" /\ req.meetingId \notin DOMAIN meetings)
        => /\ summaryText = "none"
           /\ insights.ret = "none"
           /\ netCalls = 0
           /\ resp # 200

\* C6: a completion request answered with an error leaves the meeting's
\* status, summary and endedAt as they were before the request.
C6_FailureCommitsNothing ==
    (pc = "done" /\ resp >= 400) => meetings = meetingsBefore

-----------------------------------------------------------------------------
\* Claims about the call session's speech pipeline, checked under SpecCall.

\* C7: once a stop is requested while a response is playing (stopRequested or
\* shuttingDown is set), no further segment of that response begins playing.
C7_StoppedResponseStaysSilent ==
    \A u \in QueuedUtterances : stoppedBy[u.resp] = "none"

\* C8: when a new response arrives while another is being spoken only the new
\* one is spoken afterwards: every utterance the engine holds belongs to the
\* response started last, so a single chunk chain feeds the engine.
C8_LastOneWins ==
    \A u \in QueuedUtterances : u.resp = nextResp - 1

\* C9: the AI never hears itself: speaking and listening are never both true.
C9_NeverHearsItself ==
    ~(isAgentSpeaking /\ isListening)

\* C10 as stated: muting the AI while it speaks never starts the recognizer.
C10_MuteNeverStartsRecognition ==
    [][(isAgentSpeaking /\ ~isAIMuted /\ isAIMuted') => ~(~recActive /\ recActive')]_vars

\* C10 amended: the chunk chain resumes the recognizer it paused only while no
\* stop request stands, so not after a cancellation by mute; the mute handler
\* itself starts the recognizer at once when the mic is enabled, AI listening
\* is not disabled, the recognizer is not listening and the session is not
\* shutting down.
C10_MuteStartsRecognitionItself ==
    [][ /\ (recognitionPausedByTTS /\ ~recognitionPausedByTTS')
              => (~ttsStopRequested /\ ~isShuttingDown)
        /\ (/\ ~isAIMuted /\ isAIMuted'
            /\ micEnabled /\ ~isAIListeningDisabled /\ ~isListening
            /\ ~recActive /\ ~isShuttingDown)
              => (recActive' /\ isListening') ]_vars
\* The AI was muted while it spoke with the recognizer paused, and the
\* recognizer is listening again although the chain never resumed it.
C10_Witness ==
    /\ \E r \in DOMAIN stoppedBy : stoppedBy[r] = "mute"
    /\ isAIMuted /\ ttsStopRequested /\ recognitionPausedByTTS
    /\ recActive /\ isListening

-----------------------------------------------------------------------------
\* Claims about the project-plan route, checked under SpecPlan.

\* C11: the fallback planner emits exactly one canned phase per matched
\* keyword family, in the order Frontend Development, Backend Development,
\* Implementation & Launch, and the single phase "Project Planning & Setup"
\* when no family matches; a transcript matching only the backend family gives
\* exactly the phase "Backend Development" with its fixed task.
C11_FallbackPhasesByFamily ==
    planData.path = "fallback" =>
        LET lower == ToLowerCase(transcriptAnswer.transcript)
            fe == IncludesAny(lower, FrontendKeys)
            be == IncludesAny(lower, BackendKeys)
            la == IncludesAny(lower, LaunchKeys)
            canned == <<[on |-> fe, phase |-> FrontendPhase],
                        [on |-> be, phase |-> BackendPhase],
                        [on |-> la, phase |-> LaunchPhase]>>
            matched == SelectSeq(canned, LAMBDA c : c.on)
            phases == planData.plan.phases
        IN /\ (matched # <<>> =>
                  phases = [i \in 1..Len(matched) |-> matched[i].phase])
           /\ (matched = <<>> =>
                  /\ Len(phases) = 1
                  /\ phases[1].name = "Project Planning & Setup")
           /\ ((be /\ ~fe /\ ~la) =>
                  /\ Len(phases) = 1
                  /\ phases[1].name = "Backend Development"
                  /\ Len(phases[1].tasks) = 1
                  /\ phases[1].tasks[1].title = "Implement robust backend architecture"
                  /\ phases[1].tasks[1].estimatedHours = 20
                  /\ Len(phases[1].tasks[1].subtasks) = 5)
\* The fallback planned a transcript that names only the backend.
C11_Witness ==
    /\ planData.path = "fallback"
    /\ transcriptAnswer.transcript = TxtBackend
    /\ Len(planData.plan.phases) = 1
    /\ planData.plan.phases[1].name = "Backend Development"

RECURSIVE SumSeq(_)
SumSeq(q) == IF q = <<>> THEN 0 ELSE Head(q) + SumSeq(Tail(q))

\* C12: every stored plan round-trips: re-parsing the stored JSON gives the
\* phase count and per-phase task counts of the plan that was written, its
\* workloadAnalysis.totalTasks is the number of tasks of all its phases and its
\* estimatedTotalHours the sum of their estimatedHours.
C12_StoredPlanRoundTrips ==
    \A i \in 1..Len(aiProjectPlans) :
        LET row == aiProjectPlans[i]
            counts == ParseTaskCounts(row.phases)
            wa == ParseWorkload(row.workloadAnalysis)
        IN /\ wa.totalTasks = SumSeq(counts)
           /\ wa.estimatedTotalHours = ParseTotalHours(row.phases)
           /\ (/\ i = Len(aiProjectPlans) /\ planPc = "done"
               /\ Len(aiProjectPlans) > sizesBefore[1])
                 => counts = TaskCounts(planData.plan.phases)

\* C13: when the LLM-proxy call answers non-2xx the request is answered with
\* a failure, no fallback plan is substituted and no plan, phase, task or
\* subtask row is written.
C13_LLMFailureIsReported ==
    llmAnswer.text = "none" =>
        /\ planPc = "done" /\ planResp = 500
        /\ planData.path = "none"
        /\ TableSizes = sizesBefore
\* The LLM call failed on a regeneration: the first generation's rows are
\* there and nothing was added.
C13_Witness ==
    /\ llmAnswer.text = "none" /\ planResp = 500
    /\ planRequests = 2 /\ Len(aiProjectPlans) = 1 /\ Len(projectPhases) > 0

\* C14: when the transcript fetch answers non-2xx the request is answered
\* with a failure: the LLM is not prompted and no plan is persisted.
C14_TranscriptFailureIsReported ==
    ~transcriptAnswer.ok =>
        /\ llmAnswer = NoLLMAnswer
        /\ planResp # 200
        /\ TableSizes = sizesBefore

\* C15: when the LLM-proxy call answers 2xx with a text that is not JSON or
\* has no phases array, the request succeeds and the fallback plan of the
\* transcript is what is persisted and returned.
C15_ParseFailureFallsBack ==
    (llmAnswer.ok /\ llmAnswer.text # "plan") =>
        LET fb == createFallbackPlan(transcriptAnswer.transcript)
        IN /\ planData.path = "fallback"
           /\ planData.plan = fb
           /\ planPc = "done" =>
                 /\ planResp = 200
                 /\ Len(aiProjectPlans) = sizesBefore[1] + 1
                 /\ aiProjectPlans[Len(aiProjectPlans)] = PlanRow(planRequests, planReq, fb)
                 /\ Len(projectPhases) = sizesBefore[2] + Len(fb.phases)
                 /\ Len(tasks) = sizesBefore[3] + TotalTasks(fb.phases)
\* A text that is not JSON was answered 200 with a stored plan.
C15_Witness ==
    /\ llmAnswer.ok /\ llmAnswer.text = "notJson"
    /\ planPc = "done" /\ planResp = 200
    /\ planData.path = "fallback"
    /\ Len(aiProjectPlans) > 0

\* C16: regeneration is idempotent at the document level: after a successful
\* generation the meeting has one plan document, a read returns the plan
\* generated last, and the phase rows of every generation accumulate.
C16_OneDocumentLatestWins ==
    [][ /\ (planPc' = "done" /\ planResp' = 200 /\ planPc = "save") =>
              /\ Len(SelectSeq(aiProjectPlans', LAMBDA r : r.meetingId = planReq')) = 1
              /\ Len(projectPhases') = Len(projectPhases) + Len(planData.plan.phases)
        /\ (planGot' # planGot /\ planGot'.status = 200) =>
              planGot'.id = aiProjectPlans[Len(aiProjectPlans)].id ]_vars

-----------------------------------------------------------------------------
\* Claims about the conversation store, checked under SpecChunks.

\* The lines of a text: its pieces between line breaks; an empty text has none.
RECURSIVE SplitAt(_, _)
SplitAt(cs, cur) ==
    IF cs = <<>> THEN <<cur>>
    ELSE IF Head(cs) = "\n" THEN <<cur>> \o SplitAt(Tail(cs), <<>>)
    ELSE SplitAt(Tail(cs), Append(cur, Head(cs)))
SplitLines(cs) == IF cs = <<>> THEN <<>> ELSE SplitAt(cs, <<>>)

\* The rows of a meeting, each exactly once, in ascending timestamp order.
AscendingReadings(meetingId) ==
    LET mine == SelectSeq(conversationChunks, LAMBDA r : r.meetingId = meetingId)
        n == Len(mine)
    IN {q \in {[i \in 1..n |-> mine[f[i]]] :
                  f \in {g \in [1..n -> 1..n] : \A i, j \in 1..n : i # j => g[i] # g[j]}} :
           \A i \in 1..n : i < n => q[i].ts <= q[i + 1].ts}

\* An append leaves the rows it found as they were.
AppendKeepsRows ==
    conversationChunks' # conversationChunks =>
        /\ Len(conversationChunks') = Len(conversationChunks) + 1
        /\ SubSeq(conversationChunks', 1, Len(conversationChunks)) = conversationChunks

\* A structured read answers every row of the meeting once, oldest first.
StructuredReadInOrder ==
    (chunkRead' # chunkRead /\ chunkRead'.status = 200 /\ chunkRead'.format = "chunks") =>
        chunkRead'.rows \in AscendingReadings(chunkRead'.meetingId)

\* A joined read answers one "Speaker: text" line per row, oldest first.
JoinedReadOneLinePerChunk ==
    (chunkRead' # chunkRead /\ chunkRead'.status = 200 /\ chunkRead'.format = "joined") =>
        \E q \in AscendingReadings(chunkRead'.meetingId) :
            SplitLines(chunkRead'.transcript) = [i \in 1..Len(q) |-> ChunkLine(q[i])]

SingleLine(text) == \A i \in 1..Len(text) : text[i] # "\n"

\* C17 as stated: after any appends to a meeting a read answers every appended
\* chunk exactly once in ascending timestamp order, appends leave earlier chunks
\* alone, and the joined format is one "Speaker: text" line per chunk.
C17_ReadAnswersEveryChunkInOrder ==
    [][AppendKeepsRows /\ StructuredReadInOrder /\ JoinedReadOneLinePerChunk]_vars

\* C17, amended: the same, with the joined format being one "Speaker: text"
\* line per chunk when no chunk of the meeting holds a line break in its text.
C17_SingleLineChunksReadInOrder ==
    [][/\ AppendKeepsRows
       /\ StructuredReadInOrder
       /\ (\A i \in 1..Len(conversationChunks) :
              conversationChunks[i].meetingId = chunkRead'.meetingId
                  => SingleLine(conversationChunks[i].text))
            => JoinedReadOneLinePerChunk]_vars

\* Two chunks of one meeting, the later one appended first, read joined.
C17_Witness ==
    /\ Len(conversationChunks) = 2
    /\ conversationChunks[1].meetingId = "m1" /\ conversationChunks[2].meetingId = "m1"
    /\ conversationChunks[1].ts > conversationChunks[2].ts
    /\ SingleLine(conversationChunks[1].text) /\ SingleLine(conversationChunks[2].text)
    /\ chunkRead.status = 200 /\ chunkRead.format = "joined" /\ chunkRead.meetingId = "m1"
    /\ chunkRead.transcript =
           JoinLines(<<ChunkLine(conversationChunks[2]), ChunkLine(conversationChunks[1])>>)

-----------------------------------------------------------------------------
\* Claims about the heuristic fallback, checked under SpecText.

AliceName == <<"A","l","i","c","e">>
ReactSkill == <<"r","e","a","c","t">>
\* The lines of the transcript in which Alice says she is good at React.
ReactMentions == {i \in 1..Len(hText) : hText[i] \in {TextLines[1], TextLines[2]}}
ReactEntries ==
    {i \in 1..Len(hOut.expertise) :
        hOut.expertise[i].user = AliceName /\ hOut.expertise[i].skill = ReactSkill}

KeywordCounts ==
    {[pos |-> CountKeywords(t, PosWords), neg |-> CountKeywords(t, NegWords)] :
        t \in {ToLowerCase(JoinWith(hText, "\n"))}}

\* C19: the heuristic sentiment score is (pos + 1) / (pos + neg + 2) for the
\* numbers pos and neg of positive and negative keywords in the transcript:
\* 0.5 when no keyword occurs, 0.8 for 3 positive and no negative keyword.
C19_ScoreIsSmoothedRatio ==
    hDone =>
        \A c \in KeywordCounts :
            /\ REq(hOut.score, <<c.pos + 1, c.pos + c.neg + 2>>)
            /\ (c.pos = 0 /\ c.neg = 0 => REq(hOut.score, <<1, 2>>))
            /\ (c.pos = 3 /\ c.neg = 0 => REq(hOut.score, <<4, 5>>))

\* Three positive keywords and no negative one.
C19_Witness ==
    /\ hDone
    /\ \E c \in KeywordCounts : c.pos = 3 /\ c.neg = 0
    /\ REq(hOut.score, <<4, 5>>)

\* A transcript without a keyword.
C19_WitnessNeutral ==
    /\ hDone
    /\ \E c \in KeywordCounts : c.pos = 0 /\ c.neg = 0
    /\ REq(hOut.score, <<1, 2>>)

-----------------------------------------------------------------------------
\* Claims about the speech output mode, checked under SpecSpeech.

\* C20: the mode lock is sticky: a session locked to "browser" stays in
\* browser mode although the neural endpoint answers with usable audio later,
\* and the mode changes only from unset to a locked value.
C20_ModeLockIsSticky ==
    [][/\ (speechMode # "unset" => speechMode' = speechMode)
       /\ (speechMode' # speechMode => speechMode' \in {"neural", "browser"})]_vars

\* Locked to browser, and a segment spoken while the endpoint had usable audio.
C20_Witness ==
    /\ speechMode = "browser"
    /\ \E i \in 1..Len(voiced) : voiced[i] = [by |-> "browser", endpoint |-> "up"]

-----------------------------------------------------------------------------
\* Claims about the persistence of a plan, checked under SpecPersist.

\* C21: in every state, also the one a failed INSERT leaves, the phase of
\* each task row is the id of a written phase row of the task's meeting, and
\* the taskId of each subtask row is the id of a written task row.
C21_RowsReferenceWrittenRows ==
    /\ \A t \in taskTable :
          \E p \in phaseTable : p.id = t.phase /\ p.meetingId = t.meetingId
    /\ \A s \in subtaskTable : \E t \in taskTable : t.id = s.taskId

\* A handler has failed in mid-sequence (its second task has no title) while
\* the other one is between two of its INSERTs.
C21_Witness ==
    /\ \E h \in Savers : savers[h].pc = "done" /\ savers[h].resp = 500 /\ savers[h].n >= 3
    /\ \E h \in Savers : savers[h].pc = "subtask" /\ savers[h].k >= 2
    /\ subtaskTable # {}

-----------------------------------------------------------------------------
\* Claims about the skill -> role lookups, checked under SpecRoles.

\* C22: for every skill, the LLM backfill and the heuristic path propose the
\* same role, or both propose none.
C22_BothPathsProposeTheSameRole ==
    (backfillRole # NotAsked /\ fallbackRole # NotAsked) => backfillRole = fallbackRole

-----------------------------------------------------------------------------
\* Claims about the in-memory conversation cache, checked under SpecSync.

\* The step is a request of the given kind that was answered with 200.
Answered(kind) ==
    syncSeq' # syncSeq /\ syncResp'.kind = kind /\ syncResp'.status = 200

\* C23: the cache never serves stale data.  A read more than five minutes
\* after the meeting's latest write (or with no write at all) answers the
\* empty default and leaves no entry for the meeting; a read within five
\* minutes answers the values of the latest write, a missing value as its
\* default; a write replaces the whole entry of its meeting and leaves the
\* entries of the other meetings alone.
C23_CacheNeverServesStaleData ==
    [][/\ Answered("get") =>
            LET m == syncResp'.meetingId
                w == lastPosted[m]
            IN IF w = NoPost \/ syncNow - w.at > FiveMinutes
               THEN syncResp'.body = EmptyConversation /\ conversationStore'[m] = NoEntry
               ELSE syncResp'.body = Stored(w.body)
       /\ Answered("post") =>
            LET m == syncResp'.meetingId
            IN /\ conversationStore'[m] =
                      [set |-> TRUE, data |-> Stored(lastPosted'[m].body), lastUpdated |-> syncNow]
               /\ \A o \in SyncMeetings \ {m} : conversationStore'[o] = conversationStore[o]]_vars

\* A read six minutes after a write of "hello" has been answered with the
\* empty default, the other meeting's entry being still in the cache.
C23_Witness ==
    /\ syncResp.kind = "get" /\ syncResp.status = 200
    /\ lastPosted[syncResp.meetingId] # NoPost
    /\ lastPosted[syncResp.meetingId].body.transcript = "hello"
    /\ syncNow - lastPosted[syncResp.meetingId].at > FiveMinutes
    /\ syncResp.body = EmptyConversation
    /\ ~conversationStore[syncResp.meetingId].set
    /\ \E o \in SyncMeetings : conversationStore[o].set

\* A read within five minutes of a write has been answered with its values.
C23_WitnessFresh ==
    /\ syncResp.kind = "get" /\ syncResp.status = 200
    /\ lastPosted[syncResp.meetingId] # NoPost
    /\ syncNow - lastPosted[syncResp.meetingId].at = FiveMinutes
    /\ syncResp.body.transcript = "hello"

-----------------------------------------------------------------------------
\* Claims about the meetings router, checked under SpecAccess.

\* C24: after any sequence of create, join, leave, remove and status changes,
\* getOne answers the meeting if and only if it exists and the caller owns it,
\* or it is active or upcoming, or the caller has a participant row; it answers
\* FORBIDDEN for an existing meeting otherwise, and NOT_FOUND for a meeting
\* that does not exist.
C24_GetOneAnswersWhoMaySee ==
    meetingResp.op = "getOne" =>
        LET exists == meeting.state = "row"
            maySee == \/ meeting.userId = meetingResp.caller
                      \/ meeting.status = "active" \/ meeting.status = "upcoming"
                      \/ \E p \in meetingParticipants : p.userId = meetingResp.caller
        IN /\ meetingResp.code = "OK" <=> (exists /\ maySee)
           /\ meetingResp.code = "OK" => meetingResp.data = meeting
           /\ meetingResp.code = "FORBIDDEN" <=> (exists /\ ~maySee)
           /\ meetingResp.code = "NOT_FOUND" <=> ~exists

\* A completed meeting has been answered to a participant who left it, and
\* who does not own it.
C24_Witness ==
    /\ meetingResp.op = "getOne" /\ meetingResp.code = "OK"
    /\ meeting.status = "completed"
    /\ meeting.userId # meetingResp.caller
    /\ \A p \in RowsOf(meetingResp.caller) : p.left

\* An upcoming meeting has been answered to a user who neither owns nor joined it.
C24_WitnessOpen ==
    /\ meetingResp.op = "getOne" /\ meetingResp.code = "OK"
    /\ meeting.status = "upcoming"
    /\ meeting.userId # meetingResp.caller
    /\ RowsOf(meetingResp.caller) = {}

\* C25: after any interleaving of join calls, also of two calls of the same
\* user at the same time, the meeting has at most one participant row per
\* user.
C25_OneRowPerMeetingAndUser ==
    \A u \in AccessUsers : Cardinality(RowsOf(u)) <= 1

-----------------------------------------------------------------------------
\* Further claims about the call session, checked under SpecCall.

\* C26: a question recognized while the answer to an earlier one is being
\* fetched is still in lastQuestion after that answer has been spoken:
\* lastQuestion is cleared only when it holds the question that was answered.
C26_NewerQuestionIsKept ==
    [][\A i \in 1..Len(fetches) : \A n \in 0..MaxChunks :
          (FetchAnswers(i, TRUE, n) /\ ~isShuttingDown /\ lastQuestion # fetches[i].message)
              => lastQuestion' = lastQuestion]_vars

\* C27: a delayed re-cancel of a force-stop never cancels a segment of a
\* response that started after the force-stop.  The first segment of a
\* response is queued when the response starts, and every force-stop empties
\* the queue: a first segment in the queue belongs to a response younger than
\* every pending re-cancel, and the re-cancel must leave it there.
C27_RecancelSparesLaterResponses ==
    [][\A t \in timers :
          (t.kind = "recancel" /\ TimerFires(t)) =>
              \A k \in 1..Len(synthQueue) :
                  synthQueue[k].index = 0 =>
                      \E j \in 1..Len(synthQueue') : synthQueue'[j] = synthQueue[k]]_vars

-----------------------------------------------------------------------------
\* Claims about splitTextIntoChunks, checked under SpecSplit.

\* the characters of the chunks in order, and of a text, but the spaces
RECURSIVE Flatten(_)
Flatten(chunks) == IF chunks = <<>> THEN <<>> ELSE Head(chunks) \o Flatten(Tail(chunks))
NoSpaces(s) == SelectSeq(s, LAMBDA c : c # " ")

\* C28: every chunk has at most maxLen characters, and the chunks in order
\* hold the characters of the whitespace-normalised text, each once, spaces
\* aside; also when a sentence whose length is a multiple of maxLen is split.
C28_ChunksPartitionTheText ==
    splitDone =>
        /\ \A k \in 1..Len(splitChunks) : Len(splitChunks[k]) <= splitMaxLen
        /\ NoSpaces(Flatten(splitChunks)) = NoSpaces(Trim(CollapseSpaces(splitText)))

-----------------------------------------------------------------------------
\* Claims about the tasks route, checked under SpecTasks.

\* C30: under any interleaving of the requests that create or update tasks of
\* one meeting with a missing or invalid phase, at most one default phase
\* "Project Planning & Setup" is created for the meeting, and every stored
\* task is filed under a phase row of its own meeting.
C30_OneDefaultPhasePerMeeting ==
    /\ Cardinality({p \in MeetingPhases : p.name = DefaultPhaseName}) <= 1
    /\ \A t \in taskRows :
          \E p \in taskPhases : p.id = t.phase /\ p.meetingId = t.meetingId

=============================================================================
